---- MODULE Spec2Model ----
(***************************************************************************)
(* A model of the task-management backend: the task store (TaskService),   *)
(* the natural-language command front end (AIService) and the pure         *)
(* functions it is built from (pattern interpreter, normalizer).           *)
(*                                                                         *)
(* Text is a TLA+ string; Len, \o and SubSeq act on strings character by   *)
(* character.  An optional (nullable) value is None (<<>>) or Some(v)      *)
(* (<<v>>).  A JSON value of a descriptor is a record [k, v] tagged by its *)
(* JSON kind.                                                              *)
(***************************************************************************)
EXTENDS Integers, Sequences, FiniteSets, TLC

VARIABLES
    tasks,   \* the tasks table: id -> row
    today,   \* datetime.now().date(), as <<year, month, day>>
    pre,     \* the tasks table before the last operation
    last,    \* the last operation: its name, caller, arguments and outcome
    sessions \* the database sessions of the requests in progress: what each
             \* has loaded and what its request still has to do

vars == <<tasks, today, pre, last, sessions>>

(***************************************************************************)
(* Bounds of the model.                                                    *)
(***************************************************************************)
MaxTasks == 2

Users == {1, 2}

(***************************************************************************)
(* Optional values.                                                        *)
(***************************************************************************)
None == <<>>
Some(v) == <<v>>
IsNone(o) == o = <<>>
Get(o) == o[1]

(***************************************************************************)
(* Strings.                                                                *)
(***************************************************************************)
CharAt(s, i) == SubSeq(s, i, i)

\* s[i:] of Python for 0-based i, here with 1-based first index i.
From(s, i) == IF i > Len(s) THEN "" ELSE SubSeq(s, i, Len(s))

\* s.startswith(w, i-1)
StartsWithAt(s, w, i) ==
    /\ i >= 1
    /\ i + Len(w) - 1 <= Len(s)
    /\ SubSeq(s, i, i + Len(w) - 1) = w

\* w in s
Contains(s, w) == \E i \in 1..(Len(s) + 1) : StartsWithAt(s, w, i)

UpperChars == "ABCDEFGHIJKLMNOPQRSTUVWXYZ"
LowerChars == "abcdefghijklmnopqrstuvwxyz"

LowerChar(c) ==
    IF \E i \in 1..26 : CharAt(UpperChars, i) = c
    THEN CharAt(LowerChars, CHOOSE i \in 1..26 : CharAt(UpperChars, i) = c)
    ELSE c

RECURSIVE Lower(_)
\* str.lower() on ASCII text (the two halves of the text, each lowered)
Lower(s) ==
    IF s = "" THEN ""
    ELSE IF Len(s) = 1 THEN LowerChar(s)
    ELSE Lower(SubSeq(s, 1, Len(s) \div 2)) \o Lower(SubSeq(s, Len(s) \div 2 + 1, Len(s)))

IsSpace(c) == c = " " \/ c = "\n" \/ c = "\t"

\* str.strip(): the text from its first to its last non-space character
Strip(s) ==
    LET inked == {i \in 1..Len(s) : ~IsSpace(CharAt(s, i))} IN
    IF inked = {} THEN ""
    ELSE SubSeq(s, CHOOSE i \in inked : \A j \in inked : i <= j,
                   CHOOSE i \in inked : \A j \in inked : j <= i)

RECURSIVE Join(_, _)
\* sep.join(parts)
Join(parts, sep) ==
    IF parts = <<>> THEN ""
    ELSE IF Len(parts) = 1 THEN parts[1]
    ELSE parts[1] \o sep \o Join(Tail(parts), sep)

Digits == "0123456789"
IsDigit(c) == \E i \in 1..10 : CharAt(Digits, i) = c
DigitVal(c) == (CHOOSE i \in 1..10 : CharAt(Digits, i) = c) - 1
DigitChar(n) == CharAt(Digits, n + 1)

RECURSIVE NatStr(_)
\* str(n) for n >= 0
NatStr(n) == IF n < 10 THEN DigitChar(n) ELSE NatStr(n \div 10) \o DigitChar(n % 10)

IntStr(n) == IF n < 0 THEN "-" \o NatStr(0 - n) ELSE NatStr(n)

(***************************************************************************)
(* Task states and priorities (schemas/task.py).                           *)
(***************************************************************************)
NOT_STARTED == "Not Started"
IN_PROGRESS == "In Progress"
COMPLETED == "Completed"

TaskState == {NOT_STARTED, IN_PROGRESS, COMPLETED}

TaskPriority == {"LOW", "MEDIUM", "HIGH", "URGENT"}

\* A rule that lets a Completed task be taken up again.
get_valid_transitions_reopen(current_state) ==
    CASE current_state = NOT_STARTED -> <<IN_PROGRESS>>
      [] current_state = IN_PROGRESS -> <<COMPLETED>>
      [] current_state = COMPLETED -> <<IN_PROGRESS>>
      [] OTHER -> <<>>

\* The list of states a task may move to from current_state.
get_valid_transitions(current_state) ==
    CASE current_state = NOT_STARTED -> <<IN_PROGRESS>>
      [] current_state = IN_PROGRESS -> <<COMPLETED>>
      [] current_state = COMPLETED -> <<>>
      [] OTHER -> <<>>

\* A rule that lets a task move to any state but its own.
is_valid_transition_any(from_state, to_state) == from_state # to_state

is_valid_transition(from_state, to_state) ==
    \E i \in 1..Len(get_valid_transitions(from_state)) :
        get_valid_transitions(from_state)[i] = to_state

validate_state_transition(current_state, new_state) ==
    is_valid_transition(current_state, new_state)

get_allowed_transitions(current_state) == get_valid_transitions(current_state)

(***************************************************************************)
(* Outcomes of a call: a returned value or a raised exception.             *)
(***************************************************************************)
Return(v) == [kind |-> "return", value |-> v]
Raise(type, text) == [kind |-> "raise", exc |-> type, str |-> text]

HTTP_404_NOT_FOUND == 404
HTTP_400_BAD_REQUEST == 400

\* fastapi.HTTPException; str(e) is "<status_code>: <detail>".
HTTPException(status_code, detail) ==
    [kind |-> "raise", exc |-> "HTTPException", status |-> status_code,
     detail |-> detail, str |-> NatStr(status_code) \o ": " \o detail]

Raised(out) == out.kind = "raise"

(***************************************************************************)
(* The tasks table (models/task.py) and TaskService (task_service.py).     *)
(* A table is a function from the ids of its rows to the rows.  created_at *)
(* and updated_at are server-side timestamps that no operation reads; they *)
(* are left out.                                                           *)
(***************************************************************************)
TaskRow(title, description, state, priority, category, scheduled_date, scheduled_time, due_date, due_time, reminder_time, user_id) ==
    [title |-> title, description |-> description, state |-> state,
     priority |-> priority, category |-> category,
     scheduled_date |-> scheduled_date, scheduled_time |-> scheduled_time,
     due_date |-> due_date, due_time |-> due_time,
     reminder_time |-> reminder_time, user_id |-> user_id]

EmptyTable == [i \in {} |-> None]

Max(S) == CHOOSE m \in S : \A n \in S : n <= m
Min(S) == CHOOSE m \in S : \A n \in S : m <= n

\* The id an INTEGER PRIMARY KEY column gives a new row: one more than the
\* largest id in the table.
NewId(db) == IF DOMAIN db = {} THEN 1 ELSE Max(DOMAIN db) + 1

RECURSIVE SortedIds(_)
\* The ids of a set in increasing order: the order a table scan returns rows.
SortedIds(S) == IF S = {} THEN <<>> ELSE <<Min(S)>> \o SortedIds(S \ {Min(S)})

\* The rows of the query's result, each with its id.
Rows(db, ids) == [i \in 1..Len(SortedIds(ids)) |->
                    [id |-> SortedIds(ids)[i], row |-> db[SortedIds(ids)[i]]]]

\* A TaskCreate with only the title given (the defaults of TaskBase).
\* The priority is kept optional: None stands for a falsy priority.
TaskCreate(title) ==
    [title |-> title, description |-> None, priority |-> Some("MEDIUM"),
     category |-> None, scheduled_date |-> None, scheduled_time |-> None,
     due_date |-> None, due_time |-> None, reminder_time |-> None]

\* A TaskUpdate with nothing set.
TaskUpdate ==
    [title |-> None, description |-> None, state |-> None, priority |-> None,
     category |-> None, scheduled_date |-> None, scheduled_time |-> None,
     due_date |-> None, due_time |-> None, reminder_time |-> None]

\* A creation that stores the row as already started.
create_task_started(db, task, user_id) ==
    LET id == NewId(db)
        db_task == TaskRow(task.title, task.description, IN_PROGRESS,
                           IF IsNone(task.priority) THEN "MEDIUM" ELSE Get(task.priority),
                           task.category, task.scheduled_date, task.scheduled_time,
                           task.due_date, task.due_time, task.reminder_time, user_id)
    IN [db |-> [i \in DOMAIN db \cup {id} |-> IF i = id THEN db_task ELSE db[i]],
        out |-> Return([id |-> id, row |-> db_task])]

\* TaskService.create_task: [db, out]
create_task(db, task, user_id) ==
    LET id == NewId(db)
        db_task == TaskRow(task.title, task.description, NOT_STARTED,
                           IF IsNone(task.priority) THEN "MEDIUM" ELSE Get(task.priority),
                           task.category, task.scheduled_date, task.scheduled_time,
                           task.due_date, task.due_time, task.reminder_time, user_id)
    IN [db |-> [i \in DOMAIN db \cup {id} |-> IF i = id THEN db_task ELSE db[i]],
        out |-> Return([id |-> id, row |-> db_task])]

\* A lookup by id alone, whoever owns the row.
get_task_any_owner(db, task_id, user_id) ==
    LET found == {i \in DOMAIN db : i = task_id}
    IN IF found = {} THEN None ELSE Some(Rows(db, found)[1])

\* TaskService.get_task: None or Some([id, row])
get_task(db, task_id, user_id) ==
    LET found == {i \in DOMAIN db : i = task_id /\ db[i].user_id = user_id}
    IN IF found = {} THEN None ELSE Some(Rows(db, found)[1])

\* A listing that leaves out the filter on the owner.
get_tasks_of_all(db, user_id, state_filter) ==
    IF ~IsNone(state_filter)
    THEN Rows(db, {i \in DOMAIN db : db[i].state = Get(state_filter)})
    ELSE Rows(db, DOMAIN db)

\* TaskService.get_tasks: the list of [id, row]; state_filter is optional.
get_tasks(db, user_id, state_filter) ==
    LET mine == {i \in DOMAIN db : db[i].user_id = user_id}
    IN IF ~IsNone(state_filter)
       THEN Rows(db, {i \in mine : db[i].state = Get(state_filter)})
       ELSE Rows(db, mine)

\* One field of update_task's "update basic fields": the request's value when
\* it is not None.
Updated(old, new) == IF ~IsNone(new) THEN Get(new) ELSE old

\* Optional columns hold an optional value: the request's when it is not None.
UpdatedOpt(old, new) == IF ~IsNone(new) THEN new ELSE old

\* TaskService.update_task: [db, out, obj]; obj is the in-memory db_task when
\* the call ends (None when no row was loaded).
update_task(db, task_id, task_update, user_id) ==
    LET got == get_task(db, task_id, user_id) IN
    IF IsNone(got)
    THEN [db |-> db, out |-> HTTPException(HTTP_404_NOT_FOUND, "Task not found"),
          obj |-> None]
    ELSE
      LET old == Get(got).row
          basic == [old EXCEPT
                      !.title = Updated(@, task_update.title),
                      !.description = UpdatedOpt(@, task_update.description),
                      !.priority = Updated(@, task_update.priority),
                      !.category = UpdatedOpt(@, task_update.category),
                      !.scheduled_date = UpdatedOpt(@, task_update.scheduled_date),
                      !.scheduled_time = UpdatedOpt(@, task_update.scheduled_time),
                      !.due_date = UpdatedOpt(@, task_update.due_date),
                      !.due_time = UpdatedOpt(@, task_update.due_time),
                      !.reminder_time = UpdatedOpt(@, task_update.reminder_time)]
      IN IF ~IsNone(task_update.state)
         THEN IF ~validate_state_transition(basic.state, Get(task_update.state))
              THEN [db |-> db,
                    out |-> HTTPException(HTTP_400_BAD_REQUEST,
                              "Invalid state transition from '" \o basic.state
                              \o "' to '" \o Get(task_update.state)
                              \o "'. Allowed transitions: ["
                              \o Join([i \in 1..Len(get_allowed_transitions(basic.state)) |->
                                         "'" \o get_allowed_transitions(basic.state)[i] \o "'"], ", ")
                              \o "]"),
                    obj |-> Some(basic)]
              ELSE LET new == [basic EXCEPT !.state = Get(task_update.state)]
                   IN [db |-> [db EXCEPT ![task_id] = new],
                       out |-> Return([id |-> task_id, row |-> new]),
                       obj |-> Some(new)]
         ELSE [db |-> [db EXCEPT ![task_id] = basic],
               out |-> Return([id |-> task_id, row |-> basic]),
               obj |-> Some(basic)]

\* A delete_task whose deletion is never committed.
delete_task_uncommitted(db, task_id, user_id) ==
    IF IsNone(get_task(db, task_id, user_id))
    THEN [db |-> db, out |-> HTTPException(HTTP_404_NOT_FOUND, "Task not found")]
    ELSE [db |-> db, out |-> Return(TRUE)]

\* A delete_task that answers True for a row that is not there.
delete_task_silent(db, task_id, user_id) ==
    [db |-> [i \in DOMAIN db \ {j \in {task_id} : ~IsNone(get_task(db, j, user_id))} |-> db[i]],
     out |-> Return(TRUE)]

\* TaskService.delete_task: [db, out]
delete_task(db, task_id, user_id) ==
    LET got == get_task(db, task_id, user_id) IN
    IF IsNone(got)
    THEN [db |-> db, out |-> HTTPException(HTTP_404_NOT_FOUND, "Task not found")]
    ELSE [db |-> [i \in DOMAIN db \ {task_id} |-> db[i]], out |-> Return(TRUE)]

RECURSIVE LikeMatch(_, _)
\* SQLite's LIKE: % matches any text, _ any one character, and letters match
\* without regard to (ASCII) case.
LikeMatch(p, s) ==
    IF p = "" THEN s = ""
    ELSE IF Head(p) = "%"
         THEN \E k \in 1..(Len(s) + 1) : LikeMatch(Tail(p), From(s, k))
         ELSE /\ s # ""
              /\ (Head(p) = "_" \/ LowerChar(Head(p)) = LowerChar(Head(s)))
              /\ LikeMatch(Tail(p), Tail(s))

\* TaskService.search_tasks_by_title: title LIKE '%' || title_pattern || '%'
search_tasks_by_title(db, title_pattern, user_id) ==
    Rows(db, {i \in DOMAIN db :
                /\ db[i].user_id = user_id
                /\ LikeMatch("%" \o title_pattern \o "%", db[i].title)})

(***************************************************************************)
(* Calendar dates <<year, month, day>> and times of day <<hour, minute>>.  *)
(***************************************************************************)
IsLeap(y) == (y % 4 = 0 /\ y % 100 # 0) \/ y % 400 = 0

DaysInMonth(y, m) ==
    IF m = 2 THEN (IF IsLeap(y) THEN 29 ELSE 28)
    ELSE IF m \in {4, 6, 9, 11} THEN 30 ELSE 31

\* datetime.date(y, m, d) exists
ValidDate(y, m, d) ==
    /\ y >= 1 /\ y <= 9999
    /\ m >= 1 /\ m <= 12
    /\ d >= 1 /\ d <= DaysInMonth(y, m)

NextDay(dt) ==
    IF dt[3] < DaysInMonth(dt[1], dt[2]) THEN <<dt[1], dt[2], dt[3] + 1>>
    ELSE IF dt[2] < 12 THEN <<dt[1], dt[2] + 1, 1>>
    ELSE <<dt[1] + 1, 1, 1>>

PrevDay(dt) ==
    IF dt[3] > 1 THEN <<dt[1], dt[2], dt[3] - 1>>
    ELSE IF dt[2] > 1 THEN <<dt[1], dt[2] - 1, DaysInMonth(dt[1], dt[2] - 1)>>
    ELSE <<dt[1] - 1, 12, 31>>

RECURSIVE AddDays(_, _)
\* dt + timedelta(days=n)
AddDays(dt, n) ==
    IF n = 0 THEN dt
    ELSE IF n > 0 THEN AddDays(NextDay(dt), n - 1)
    ELSE AddDays(PrevDay(dt), n + 1)

RECURSIVE PadStr(_, _)
PadStr(s, w) == IF Len(s) >= w THEN s ELSE PadStr("0" \o s, w)

\* n written with at least w digits (the format spec 0<w>d)
Pad(n, w) == PadStr(NatStr(n), w)

\* str(date): YYYY-MM-DD
DateStr(dt) == Pad(dt[1], 4) \o "-" \o Pad(dt[2], 2) \o "-" \o Pad(dt[3], 2)

\* str(time) of a time with no seconds: HH:MM:SS
TimeStr(tm) == Pad(tm[1], 2) \o ":" \o Pad(tm[2], 2) \o ":00"

AllDigits(s) == \A i \in 1..Len(s) : IsDigit(CharAt(s, i))

RECURSIVE ToNat(_)
\* int(s) for a string of digits
ToNat(s) == IF s = "" THEN 0 ELSE ToNat(SubSeq(s, 1, Len(s) - 1)) * 10 + DigitVal(CharAt(s, Len(s)))

(***************************************************************************)
(* JSON values as Python holds them after json.loads.  A scalar is         *)
(* [k |-> its kind, v |-> its text]; an object is [k |-> "object",         *)
(* v |-> a record of scalars]; an array is [k |-> "array", v |-> a         *)
(* sequence of scalars].                                                   *)
(***************************************************************************)
JNull == [k |-> "null", v |-> ""]
JStr(s) == [k |-> "str", v |-> s]
JInt(n) == [k |-> "int", v |-> IntStr(n)]
JFloat(text) == [k |-> "float", v |-> text]
JObject(d) == [k |-> "object", v |-> d]
JArray(a) == [k |-> "array", v |-> a]

\* bool(x)
Truthy(x) ==
    CASE x.k = "null" -> FALSE
      [] x.k = "str" -> x.v # ""
      [] x.k = "int" -> x.v # "0"
      [] x.k = "float" -> x.v # "0.0"
      [] x.k = "object" -> DOMAIN x.v # {}
      [] x.k = "array" -> x.v # <<>>

\* str(x) of a scalar
PyStr(x) == IF x.k = "null" THEN "None" ELSE x.v

\* type(x).__name__
TypeName(x) ==
    CASE x.k = "null" -> "NoneType"
      [] x.k = "object" -> "dict"
      [] x.k = "array" -> "list"
      [] OTHER -> x.k

AttributeError(x, attr) ==
    Raise("AttributeError",
          "'" \o TypeName(x) \o "' object has no attribute '" \o attr \o "'")

\* key in d, d[key] and d.get(key, default) of a dict
HasKey(d, key) == key \in DOMAIN d
DictGet(d, key, default) == IF key \in DOMAIN d THEN d[key] ELSE default

\* d.pop(key, None) and d[key] = value
DictPop(d, key) == [x \in DOMAIN d \ {key} |-> d[x]]
DictSet(d, key, value) == [x \in DOMAIN d \cup {key} |-> IF x = key THEN value ELSE d[x]]

\* key in d and d[key] (a present, truthy value)
Given(d, key) == HasKey(d, key) /\ Truthy(d[key])

\* int(x): None when it raises ValueError or TypeError
IsIntText(s) ==
    /\ s # ""
    /\ IF Head(s) = "-" \/ Head(s) = "+"
       THEN Len(s) > 1 /\ AllDigits(Tail(s))
       ELSE AllDigits(s)

IntOfText(s) ==
    IF Head(s) = "-" THEN 0 - ToNat(Tail(s))
    ELSE IF Head(s) = "+" THEN ToNat(Tail(s))
    ELSE ToNat(s)

PyInt(x) ==
    CASE x.k = "int" -> Some(IntOfText(x.v))
      [] x.k = "str" -> IF IsIntText(Strip(x.v)) THEN Some(IntOfText(Strip(x.v))) ELSE None
      [] x.k = "float" -> Some(IntOfText(SubSeq(x.v, 1, (CHOOSE i \in 1..Len(x.v) : CharAt(x.v, i) = ".") - 1)))
      [] OTHER -> None

(***************************************************************************)
(* What pydantic makes of the strings a TaskCreate is built from.          *)
(***************************************************************************)
\* A date field from a string: YYYY-MM-DD of an existing date, else None.
ParseISODate(s) ==
    IF /\ Len(s) = 10
       /\ CharAt(s, 5) = "-" /\ CharAt(s, 8) = "-"
       /\ AllDigits(SubSeq(s, 1, 4)) /\ AllDigits(SubSeq(s, 6, 7))
       /\ AllDigits(SubSeq(s, 9, 10))
       /\ ValidDate(ToNat(SubSeq(s, 1, 4)), ToNat(SubSeq(s, 6, 7)), ToNat(SubSeq(s, 9, 10)))
    THEN Some(<<ToNat(SubSeq(s, 1, 4)), ToNat(SubSeq(s, 6, 7)), ToNat(SubSeq(s, 9, 10))>>)
    ELSE None

\* A time field from a string: HH:MM of a time of day, else None.
ParseTime(s) ==
    IF /\ Len(s) = 5
       /\ CharAt(s, 3) = ":"
       /\ AllDigits(SubSeq(s, 1, 2)) /\ AllDigits(SubSeq(s, 4, 5))
       /\ ToNat(SubSeq(s, 1, 2)) <= 23 /\ ToNat(SubSeq(s, 4, 5)) <= 59
    THEN Some(<<ToNat(SubSeq(s, 1, 2)), ToNat(SubSeq(s, 4, 5))>>)
    ELSE None

(***************************************************************************)
(* AIService._execute_action (ai_service.py): the command dispatcher.      *)
(* Every branch yields [db, out]: the table after it and what it returns   *)
(* or raises.  The emoji that open some message lines are left out.        *)
(***************************************************************************)
AICommandResponse(success, message, action, task_id, task_list) ==
    [success |-> success, message |-> message, action |-> action,
     task_id |-> task_id, tasks |-> task_list]

Failure(message) == Return(AICommandResponse(FALSE, message, None, None, None))

\* The canned chat texts, each by its first sentence.
GREETING_TEXT == "Hello! I'm your personal day planner assistant."
HELP_TEXT == "I'm your AI day planner! Here's how I can help:"
GENERAL_TEXT == "I'm your personal task assistant!"

IsText(x, text) == x.k = "str" /\ x.v = text

\* A chat branch that answers only the message kinds it knows.
execute_chat_known(db, d) ==
    LET message_type == DictGet(d, "message", JStr("general")) IN
    [db |-> db,
     out |-> IF IsText(message_type, "greeting")
             THEN Return(AICommandResponse(TRUE, GREETING_TEXT, None, None, None))
             ELSE IF IsText(message_type, "help")
             THEN Return(AICommandResponse(TRUE, HELP_TEXT, None, None, None))
             ELSE IF IsText(message_type, "general")
             THEN Return(AICommandResponse(TRUE, GENERAL_TEXT, None, None, None))
             ELSE Failure("I couldn't understand what you want to do.")]

\* if action == "chat"
execute_chat(db, d) ==
    LET message_type == DictGet(d, "message", JStr("general")) IN
    [db |-> db,
     out |-> Return(AICommandResponse(TRUE,
                IF IsText(message_type, "greeting") THEN GREETING_TEXT
                ELSE IF IsText(message_type, "help") THEN HELP_TEXT
                ELSE GENERAL_TEXT,
                None, None, None))]

\* The fields of a TaskCreate that pydantic rejects, in the model's order.
InvalidFields(d) ==
    LET bad(f) ==
          /\ Given(d, f)
          /\ CASE f = "priority" -> ~(d[f].k = "str" /\ d[f].v \in TaskPriority)
               [] f = "category" -> d[f].k # "str"
               [] f \in {"scheduled_date", "due_date"} ->
                    d[f].k # "str" \/ IsNone(ParseISODate(d[f].v))
               [] f \in {"scheduled_time", "due_time"} ->
                    d[f].k # "str" \/ IsNone(ParseTime(d[f].v))
               [] OTHER -> FALSE
    IN SelectSeq(<<"priority", "category", "scheduled_date", "scheduled_time",
                   "due_date", "due_time">>, bad)

\* str(e) of pydantic's ValidationError, by its first line and the fields.
ValidationErrorStr(fields) ==
    NatStr(Len(fields)) \o " validation error"
    \o (IF Len(fields) = 1 THEN "" ELSE "s") \o " for TaskCreate\n"
    \o Join(fields, "\n")

\* TaskCreate(**task_create_data) for data that pydantic accepts.
TaskCreateOf(d, task_title) ==
    [title |-> task_title,
     description |-> IF Given(d, "description") THEN Some(Strip(d["description"].v)) ELSE None,
     priority |-> IF Given(d, "priority") THEN Some(d["priority"].v) ELSE Some("MEDIUM"),
     category |-> IF Given(d, "category") THEN Some(d["category"].v) ELSE None,
     scheduled_date |-> IF Given(d, "scheduled_date") THEN ParseISODate(d["scheduled_date"].v) ELSE None,
     scheduled_time |-> IF Given(d, "scheduled_time") THEN ParseTime(d["scheduled_time"].v) ELSE None,
     due_date |-> IF Given(d, "due_date") THEN ParseISODate(d["due_date"].v) ELSE None,
     due_time |-> IF Given(d, "due_time") THEN ParseTime(d["due_time"].v) ELSE None,
     reminder_time |-> IF Given(d, "reminder_time") THEN PyInt(d["reminder_time"]) ELSE None]

\* An optional message line.
Part(cond, text) == IF cond THEN <<text>> ELSE <<>>

\* The confirmation of a created task.
CreatedMessage(task) ==
    Join(<<"Created task: '" \o task.title \o "'">>
         \o Part(~IsNone(task.scheduled_date),
                 "Scheduled for " \o DateStr(Get(task.scheduled_date))
                 \o (IF ~IsNone(task.scheduled_time)
                     THEN " at " \o TimeStr(Get(task.scheduled_time)) ELSE ""))
         \o Part(~IsNone(task.due_date),
                 "Due " \o DateStr(Get(task.due_date))
                 \o (IF ~IsNone(task.due_time)
                     THEN " at " \o TimeStr(Get(task.due_time)) ELSE ""))
         \o Part(task.priority # "" /\ task.priority # "Medium",
                 "Priority: TaskPriority." \o task.priority)
         \o Part(~IsNone(task.reminder_time) /\ Get(task.reminder_time) # 0,
                 "Reminder: " \o IntStr(Get(task.reminder_time)) \o " minutes before due"),
         "\n")

execute_create(db, d, user_id) ==
    LET t == DictGet(d, "task_title", JStr("")) IN
    IF t.k # "str" THEN [db |-> db, out |-> AttributeError(t, "strip")]
    ELSE IF Strip(t.v) = ""
    THEN [db |-> db, out |-> Failure("Please provide a task title.")]
    ELSE IF Given(d, "description") /\ d["description"].k # "str"
    THEN [db |-> db, out |-> AttributeError(d["description"], "strip")]
    ELSE IF Given(d, "reminder_time") /\ IsNone(PyInt(d["reminder_time"]))
    THEN [db |-> db,
          out |-> Raise("ValueError", "invalid literal for int() with base 10: '"
                                      \o PyStr(d["reminder_time"]) \o "'")]
    ELSE IF InvalidFields(d) # <<>>
    THEN [db |-> db,
          out |-> Failure("Failed to create task: " \o ValidationErrorStr(InvalidFields(d)))]
    ELSE LET made == create_task(db, TaskCreateOf(d, Strip(t.v)), user_id)
             task == made.out.value
         IN [db |-> made.db,
             out |-> Return(AICommandResponse(TRUE, CreatedMessage(task.row),
                                              Some("create"), Some(task.id), None))]

\* TaskState(value): None when it raises ValueError
TaskStateOf(x) == IF x.k = "str" /\ x.v \in TaskState THEN Some(x.v) ELSE None

\* [task.title for task in matching_tasks]
Titles(rows) == [i \in 1..Len(rows) |-> rows[i].row.title]

\* A dispatcher that settles on the first of several matches and removes it.
AmbiguousPickFirst(db, matching_tasks) ==
    [db |-> [i \in DOMAIN db \ {matching_tasks[1].id} |-> db[i]],
     out |-> Return(AICommandResponse(TRUE,
                "Deleted task: '" \o matching_tasks[1].row.title \o "'",
                Some("delete"), Some(matching_tasks[1].id), None))]

\* if len(matching_tasks) > 1: the failure that lists the titles
Ambiguous(db, matching_tasks) ==
    [db |-> db,
     out |-> Failure("Multiple tasks found: " \o Join(Titles(matching_tasks), ", ")
                     \o ". Please be more specific.")]

execute_update_state(db, d, user_id) ==
    LET t == DictGet(d, "task_title", JStr(""))
        new_state == DictGet(d, "new_state", JNull)
    IN
    IF t.k # "str" THEN [db |-> db, out |-> AttributeError(t, "strip")]
    ELSE IF Strip(t.v) = ""
    THEN [db |-> db, out |-> Failure("Please specify which task to update.")]
    ELSE
      LET matching_tasks == search_tasks_by_title(db, Strip(t.v), user_id) IN
      IF Len(matching_tasks) = 0
      THEN [db |-> db, out |-> Failure("No tasks found matching '" \o Strip(t.v) \o "'")]
      ELSE IF Len(matching_tasks) > 1
      THEN Ambiguous(db, matching_tasks)
      ELSE IF IsNone(TaskStateOf(new_state))
      THEN [db |-> db, out |-> Failure("Invalid state: " \o PyStr(new_state))]
      ELSE
        LET task == matching_tasks[1]
            upd == update_task(db, task.id,
                               [TaskUpdate EXCEPT !.state = TaskStateOf(new_state)], user_id)
        IN IF Raised(upd.out) THEN [db |-> upd.db, out |-> upd.out]
           ELSE [db |-> upd.db,
                 out |-> Return(AICommandResponse(TRUE,
                            "Updated '" \o upd.out.value.row.title \o "' to '"
                            \o PyStr(new_state) \o "'",
                            Some("update_state"), Some(upd.out.value.id), None))]

\* A list branch that keeps, when a date_filter is given, the tasks due on
\* that date.
execute_list_dated(db, d, user_id) ==
    LET state_filter == DictGet(d, "state_filter", JNull)
        date_filter == DictGet(d, "date_filter", JNull)
        filter_msg == IF Truthy(state_filter)
                      THEN " in state '" \o PyStr(state_filter) \o "'" ELSE ""
    IN
    IF Truthy(state_filter) /\ IsNone(TaskStateOf(state_filter))
    THEN [db |-> db, out |-> Failure("Invalid state filter: " \o PyStr(state_filter))]
    ELSE
      LET found == SelectSeq(
                     get_tasks(db, user_id,
                               IF Truthy(state_filter) THEN TaskStateOf(state_filter) ELSE None),
                     LAMBDA t : Truthy(date_filter) =>
                                  /\ ~IsNone(t.row.due_date)
                                  /\ JStr(DateStr(Get(t.row.due_date))) = date_filter)
      IN IF Len(found) = 0
         THEN [db |-> db,
               out |-> Return(AICommandResponse(TRUE, "No tasks found" \o filter_msg,
                                                Some("list"), None, Some(<<>>)))]
         ELSE [db |-> db,
               out |-> Return(AICommandResponse(TRUE,
                          "Found " \o NatStr(Len(found)) \o " task(s)" \o filter_msg,
                          Some("list"), None, Some(found)))]

execute_list(db, d, user_id) ==
    LET state_filter == DictGet(d, "state_filter", JNull)
        filter_msg == IF Truthy(state_filter)
                      THEN " in state '" \o PyStr(state_filter) \o "'" ELSE ""
    IN
    IF Truthy(state_filter) /\ IsNone(TaskStateOf(state_filter))
    THEN [db |-> db, out |-> Failure("Invalid state filter: " \o PyStr(state_filter))]
    ELSE
      LET found == get_tasks(db, user_id,
                             IF Truthy(state_filter) THEN TaskStateOf(state_filter) ELSE None)
      IN IF Len(found) = 0
         THEN [db |-> db,
               out |-> Return(AICommandResponse(TRUE, "No tasks found" \o filter_msg,
                                                Some("list"), None, Some(<<>>)))]
         ELSE [db |-> db,
               out |-> Return(AICommandResponse(TRUE,
                          "Found " \o NatStr(Len(found)) \o " task(s)" \o filter_msg,
                          Some("list"), None, Some(found)))]

execute_delete(db, d, user_id) ==
    LET t == DictGet(d, "task_title", JStr("")) IN
    IF t.k # "str" THEN [db |-> db, out |-> AttributeError(t, "strip")]
    ELSE IF Strip(t.v) = ""
    THEN [db |-> db, out |-> Failure("Please specify which task to delete.")]
    ELSE
      LET matching_tasks == search_tasks_by_title(db, Strip(t.v), user_id) IN
      IF Len(matching_tasks) = 0
      THEN [db |-> db, out |-> Failure("No tasks found matching '" \o Strip(t.v) \o "'")]
      ELSE IF Len(matching_tasks) > 1
      THEN Ambiguous(db, matching_tasks)
      ELSE
        LET task == matching_tasks[1]
            del == delete_task(db, task.id, user_id)
        IN IF Raised(del.out) THEN [db |-> del.db, out |-> del.out]
           ELSE [db |-> del.db,
                 out |-> Return(AICommandResponse(TRUE,
                            "Deleted task: '" \o task.row.title \o "'",
                            Some("delete"), Some(task.id), None))]

UNDERSTOOD_TEXT ==
    "I couldn't understand what you want to do. Try commands like 'create task', 'start task', 'complete task', or 'show tasks'."

\* except Exception as e: the failed response of _execute_action
ExecuteExcept(r) ==
    IF Raised(r.out)
    THEN [db |-> r.db, out |-> Failure("Error: " \o r.out.str)]
    ELSE r

\* A dispatcher that creates a task for every action it does not recognise.
execute_action_creates(db, parsed_command, user_id) ==
    IF parsed_command.k # "object"
    THEN [db |-> db, out |-> AttributeError(parsed_command, "get")]
    ELSE
      LET d == parsed_command.v
          action == DictGet(d, "action", JNull)
      IN ExecuteExcept(
           IF IsText(action, "chat") THEN execute_chat(db, d)
           ELSE IF IsText(action, "update_state") THEN execute_update_state(db, d, user_id)
           ELSE IF IsText(action, "list") THEN execute_list(db, d, user_id)
           ELSE IF IsText(action, "delete") THEN execute_delete(db, d, user_id)
           ELSE execute_create(db, d, user_id))

\* AIService._execute_action(parsed_command, user_id), parsed_command being
\* any JSON value: [db, out]
execute_action(db, parsed_command, user_id) ==
    IF parsed_command.k # "object"
    THEN [db |-> db, out |-> AttributeError(parsed_command, "get")]
    ELSE
      LET d == parsed_command.v
          action == DictGet(d, "action", JNull)
      IN ExecuteExcept(
           IF IsText(action, "chat") THEN execute_chat(db, d)
           ELSE IF IsText(action, "create") THEN execute_create(db, d, user_id)
           ELSE IF IsText(action, "update_state") THEN execute_update_state(db, d, user_id)
           ELSE IF IsText(action, "list") THEN execute_list(db, d, user_id)
           ELSE IF IsText(action, "delete") THEN execute_delete(db, d, user_id)
           ELSE [db |-> db, out |-> Failure(UNDERSTOOD_TEXT)])

(***************************************************************************)
(* AIService._normalize_parsed_command (ai_service.py): the normalizer.    *)
(***************************************************************************)
RECURSIVE RemoveBrackets(_)
\* re.sub(r'[\[\]]', '', s)
RemoveBrackets(s) ==
    IF s = "" THEN ""
    ELSE IF Len(s) = 1 THEN (IF s = "[" \/ s = "]" THEN "" ELSE s)
    ELSE RemoveBrackets(SubSeq(s, 1, Len(s) \div 2))
         \o RemoveBrackets(SubSeq(s, Len(s) \div 2 + 1, Len(s)))

\* The prefix of s[i..] that the strptime regex of a directive matches, as its
\* length (0: no match).  %m is 1[0-2]|0[1-9]|[1-9]; %d is
\* 3[01]|[12]\d|0[1-9]|[1-9]| [1-9]; the first alternative that matches wins.
InChars(c, chars) == \E j \in 1..Len(chars) : CharAt(chars, j) = c

Two(s, i, first, second) ==
    /\ i + 1 <= Len(s)
    /\ InChars(CharAt(s, i), first)
    /\ InChars(CharAt(s, i + 1), second)

One(s, i, chars) == i <= Len(s) /\ InChars(CharAt(s, i), chars)

MonthLen(s, i) ==
    IF Two(s, i, "1", "012") \/ Two(s, i, "0", "123456789") THEN 2
    ELSE IF One(s, i, "123456789") THEN 1
    ELSE 0

DayLen(s, i) ==
    IF \/ Two(s, i, "3", "01") \/ Two(s, i, "12", Digits)
       \/ Two(s, i, "0", "123456789")
    THEN 2
    ELSE IF One(s, i, "123456789") THEN 1
    ELSE IF Two(s, i, " ", "123456789") THEN 2
    ELSE 0

\* datetime.strptime(s, "%Y-%m-%d") does not raise ValueError
StrptimeOk(s) ==
    /\ Len(s) >= 5
    /\ AllDigits(SubSeq(s, 1, 4))
    /\ CharAt(s, 5) = "-"
    /\ LET ml == MonthLen(s, 6) IN
       /\ ml > 0
       /\ StartsWithAt(s, "-", 6 + ml)
       /\ LET dl == DayLen(s, 7 + ml) IN
          /\ dl > 0
          /\ Len(s) = 6 + ml + dl
          /\ ValidDate(ToNat(SubSeq(s, 1, 4)),
                       ToNat(SubSeq(s, 6, 5 + ml)),
                       ToNat(Strip(SubSeq(s, 7 + ml, 6 + ml + dl))))

\* normalize_date_field(date_value): None or Some(text); now is today's date.
normalize_date_field(date_value, now) ==
    IF ~Truthy(date_value) THEN None
    ELSE
      LET date_str == RemoveBrackets(Strip(Lower(PyStr(date_value)))) IN
      IF date_str \in {"yyyy-mm-dd", "yyyy/mm/dd", "[yyyy-mm-dd]"} THEN None
      ELSE IF date_str \in {"today", "[today]"} THEN Some(DateStr(now))
      ELSE IF date_str \in {"tomorrow", "[tomorrow]"} THEN Some(DateStr(AddDays(now, 1)))
      ELSE IF date_str \in {"yesterday", "[yesterday]"} THEN Some(DateStr(AddDays(now, -1)))
      ELSE IF Contains(date_str, "next week") THEN Some(DateStr(AddDays(now, 7)))
      ELSE IF Contains(date_str, "next month") THEN Some(DateStr(AddDays(now, 30)))
      ELSE IF StrptimeOk(date_str) THEN Some(date_str)
      ELSE None

\* Named times of day written with seconds.
time_mappings_seconds(time_str) ==
    CASE time_str = "morning" -> Some("09:00:00")
      [] time_str = "afternoon" -> Some("14:00:00")
      [] time_str = "evening" -> Some("18:00:00")
      [] time_str = "night" -> Some("20:00:00")
      [] time_str = "noon" -> Some("12:00:00")
      [] time_str = "midnight" -> Some("00:00:00")
      [] OTHER -> None

\* The named times of day of normalize_time_field.
time_mappings(time_str) ==
    CASE time_str = "morning" -> Some("09:00")
      [] time_str = "afternoon" -> Some("14:00")
      [] time_str = "evening" -> Some("18:00")
      [] time_str = "night" -> Some("20:00")
      [] time_str = "noon" -> Some("12:00")
      [] time_str = "midnight" -> Some("00:00")
      [] OTHER -> None

\* re.match(r'^\d{1,2}:\d{2}$', s) on a stripped string
LooksLikeTime(s) ==
    \/ /\ Len(s) = 5 /\ AllDigits(SubSeq(s, 1, 2)) /\ CharAt(s, 3) = ":"
       /\ AllDigits(SubSeq(s, 4, 5))
    \/ /\ Len(s) = 4 /\ IsDigit(CharAt(s, 1)) /\ CharAt(s, 2) = ":"
       /\ AllDigits(SubSeq(s, 3, 4))

\* normalize_time_field(time_value): None or Some(text)
\* A time normalizer that keeps the named times of day and nothing else.
normalize_time_field_named(time_value) ==
    IF ~Truthy(time_value) THEN None
    ELSE time_mappings(Strip(Lower(PyStr(time_value))))

normalize_time_field(time_value) ==
    IF ~Truthy(time_value) THEN None
    ELSE
      LET time_str == Strip(Lower(PyStr(time_value))) IN
      IF time_str \in {"hh:mm", "hh:mm:ss", "[hh:mm]"} THEN None
      ELSE IF ~IsNone(time_mappings(time_str)) THEN time_mappings(time_str)
      ELSE IF LooksLikeTime(time_str) THEN Some(time_str)
      ELSE None

\* "Normalize priority to uppercase"
normalize_priority(d) ==
    IF Given(d, "priority")
       /\ Lower(PyStr(d["priority"])) \in {"low", "medium", "high", "urgent"}
    THEN DictSet(d, "priority",
                 JStr(CASE Lower(PyStr(d["priority"])) = "low" -> "LOW"
                        [] Lower(PyStr(d["priority"])) = "medium" -> "MEDIUM"
                        [] Lower(PyStr(d["priority"])) = "high" -> "HIGH"
                        [] Lower(PyStr(d["priority"])) = "urgent" -> "URGENT"))
    ELSE d

\* "Handle <key>": the key set to its normalized value when that is truthy,
\* popped otherwise; nothing when the key is absent.
Normalized(d, key, value) ==
    IF ~HasKey(d, key) THEN d
    ELSE IF ~IsNone(value) /\ Get(value) # "" THEN DictSet(d, key, JStr(Get(value)))
    ELSE DictPop(d, key)

NormalizeDate(d, key, now) ==
    Normalized(d, key, IF HasKey(d, key) THEN normalize_date_field(d[key], now) ELSE None)

NormalizeTime(d, key) ==
    Normalized(d, key, IF HasKey(d, key) THEN normalize_time_field(d[key]) ELSE None)

NormalizedKeys ==
    <<"priority", "scheduled_date", "due_date", "date_filter", "scheduled_time", "due_time">>

\* The first of the normalizer's key tests that a non-dict fails: "key in x"
\* raises TypeError on a number or None, and x[key] raises it on a list or a
\* string that holds the key.
RaisesOnNonDict(x) ==
    \/ x.k \in {"null", "int", "float"}
    \/ /\ x.k = "str"
       /\ \E i \in 1..Len(NormalizedKeys) : Contains(x.v, NormalizedKeys[i])
    \/ /\ x.k = "array"
       /\ \E i \in 1..Len(NormalizedKeys), j \in 1..Len(x.v) :
              IsText(x.v[j], NormalizedKeys[i])

\* _normalize_parsed_command(parsed_command): the value it returns or the
\* exception it raises
normalize_parsed_command(parsed_command, now) ==
    IF parsed_command.k = "object"
    THEN Return(JObject(
           NormalizeTime(
             NormalizeTime(
               NormalizeDate(
                 NormalizeDate(
                   NormalizeDate(normalize_priority(parsed_command.v),
                                 "scheduled_date", now),
                   "due_date", now),
                 "date_filter", now),
               "scheduled_time"),
             "due_time")))
    ELSE IF RaisesOnNonDict(parsed_command)
    THEN Raise("TypeError", "'" \o TypeName(parsed_command) \o "' is not a dict")
    ELSE Return(parsed_command)

(***************************************************************************)
(* Regular expressions as Python's re matches them: a backtracking search  *)
(* that tries alternatives in order and returns the first match.  A        *)
(* pattern is a tree of nodes; Run matches a sequence of nodes (the rest   *)
(* of the pattern) at position i and yields None or Some([pos, caps]).     *)
(***************************************************************************)
Lit(text) == [t |-> "lit", text |-> text]
Cls(name) == [t |-> "cls", name |-> name]
Alt(rs) == [t |-> "alt", rs |-> rs]
Cat(rs) == [t |-> "cat", rs |-> rs]
Grp(n, r) == [t |-> "grp", n |-> n, r |-> r]
Rep(r, min, max, greedy) == [t |-> "rep", r |-> r, min |-> min, max |-> max, greedy |-> greedy]
Bnd == [t |-> "bnd"]
End == [t |-> "end"]
Close(n, start) == [t |-> "close", n |-> n, start |-> start]

Unbounded == 0 - 1
Opt(r) == Rep(r, 0, 1, TRUE)
Plus(r) == Rep(r, 1, Unbounded, TRUE)
Star(r) == Rep(r, 0, Unbounded, TRUE)
LazyPlus(r) == Rep(r, 1, Unbounded, FALSE)
Words(ws) == Alt([i \in 1..Len(ws) |-> Lit(ws[i])])

IsWordChar(c) == InChars(c, LowerChars) \/ InChars(c, UpperChars) \/ IsDigit(c) \/ c = "_"

\* \d, \s and . (any character but a newline)
InClass(c, name) ==
    CASE name = "d" -> IsDigit(c)
      [] name = "s" -> IsSpace(c)
      [] name = "dot" -> c # "\n"

\* \b at position i
AtBoundary(s, i) ==
    (i > 1 /\ IsWordChar(CharAt(s, i - 1))) # (i <= Len(s) /\ IsWordChar(CharAt(s, i)))

\* The number of characters of the class that s holds from position i on.
ClassRun(s, i, name) ==
    LET stops == {j \in i..Len(s) : ~InClass(CharAt(s, j), name)}
    IN (IF stops = {} THEN Len(s) + 1 ELSE Min(stops)) - i

\* No group has matched: a group's capture is None or Some(text).
NoCaps == <<None, None, None>>

RECURSIVE Run(_, _, _, _)
Run(k, s, i, caps) ==
    IF Len(k) = 0 THEN Some([pos |-> i, caps |-> caps])
    ELSE
      LET n == Head(k)
          rest == Tail(k)
      IN
      CASE n.t = "lit" ->
             IF StartsWithAt(s, n.text, i) THEN Run(rest, s, i + Len(n.text), caps) ELSE None
        [] n.t = "cls" ->
             IF i <= Len(s) /\ InClass(CharAt(s, i), n.name)
             THEN Run(rest, s, i + 1, caps) ELSE None
        [] n.t = "alt" ->
             IF Len(n.rs) = 0 THEN None
             ELSE LET first == Run(<<Head(n.rs)>> \o rest, s, i, caps) IN
                  IF Len(first) > 0 THEN first
                  ELSE Run(<<Alt(Tail(n.rs))>> \o rest, s, i, caps)
        [] n.t = "cat" -> Run(n.rs \o rest, s, i, caps)
        [] n.t = "grp" -> Run(<<n.r, Close(n.n, i)>> \o rest, s, i, caps)
        [] n.t = "close" ->
             Run(rest, s, i,
                 [caps EXCEPT ![n.n] = Some(IF n.start > i - 1 THEN ""
                                            ELSE SubSeq(s, n.start, i - 1))])
        [] n.t = "rep" ->
             IF n.r.t = "cls"
             THEN \* a repeated character class: the run lengths it can take,
                  \* the longest first when greedy, the shortest first when lazy
                  LET run == ClassRun(s, i, n.r.name)
                      most == IF n.max >= 0 /\ n.max < run THEN n.max ELSE run
                      fits == {c \in n.min..most : Len(Run(rest, s, i + c, caps)) > 0}
                  IN IF fits = {} THEN None
                     ELSE Run(rest, s, i + (IF n.greedy THEN Max(fits) ELSE Min(fits)), caps)
             ELSE
             LET more == IF n.max = 0 THEN None
                         ELSE Run(<<n.r, Rep(n.r,
                                             IF n.min > 0 THEN n.min - 1 ELSE 0,
                                             IF n.max > 0 THEN n.max - 1 ELSE n.max,
                                             n.greedy)>> \o rest, s, i, caps)
                 stop == IF n.min = 0 THEN Run(rest, s, i, caps) ELSE None
             IN IF n.greedy
                THEN (IF Len(more) > 0 THEN more ELSE stop)
                ELSE (IF Len(stop) > 0 THEN stop ELSE more)
        [] n.t = "bnd" -> IF AtBoundary(s, i) THEN Run(rest, s, i, caps) ELSE None
        [] n.t = "end" ->
             IF i = Len(s) + 1 \/ (i = Len(s) /\ CharAt(s, i) = "\n")
             THEN Run(rest, s, i, caps) ELSE None

\* The match object of a match m that starts at start.
MatchAt(start, m) == Some([start |-> start, pos |-> Get(m).pos, caps |-> Get(m).caps])

\* The match at the least of the start positions, None when there is none.
Leftmost(re, s, starts) ==
    IF starts = {} THEN None
    ELSE MatchAt(Min(starts), Run(<<re>>, s, Min(starts), NoCaps))

\* re.search(re, s): the leftmost match, None or Some([start, pos, caps]).
Search(re, s) ==
    Leftmost(re, s, {i \in 1..(Len(s) + 1) : Len(Run(<<re>>, s, i, NoCaps)) > 0})

\* match.group(n)
Group(m, n) == Get(m).caps[n]

RECURSIVE SubFrom(_, _, _)
\* The text from position i on after a try m to match there: a match that
\* took text is dropped, otherwise the character at i is kept.
SubStep(re, s, i, m) ==
    IF Len(m) > 0 /\ Get(m).pos > i THEN SubFrom(re, s, Get(m).pos)
    ELSE CharAt(s, i) \o SubFrom(re, s, i + 1)

\* re.sub(re, '', s) from position i on, for a pattern that matches no empty text
SubFrom(re, s, i) ==
    IF i > Len(s) THEN "" ELSE SubStep(re, s, i, Run(<<re>>, s, i, NoCaps))

Sub(re, s) == SubFrom(re, s, 1)

\* any(word in s for word in words)
AnyIn(words, s) == \E i \in 1..Len(words) : Contains(s, words[i])

(***************************************************************************)
(* AIService._parse_with_patterns (ai_service.py): the pattern             *)
(* interpreter.  The descriptor it returns is a dict of JSON scalars.      *)
(***************************************************************************)
Dot == Cls("dot")
Space == Cls("s")
Digit == Cls("d")

greetings == {"hi", "hello", "hey", "good morning", "good afternoon", "good evening"}
help_words == <<"help", "what can you do", "how do you work", "commands">>
schedule_words == <<"schedule", "plan", "appointment", "meeting", "remind", "at", "on", "book">>
list_words == <<"show", "list", "what's", "schedule", "agenda", "today", "tomorrow", "view">>
task_keywords ==
    <<"add", "create", "new", "make", "start", "begin", "complete", "finish", "done",
      "delete", "remove", "show", "list", "view", "see", "task", "todo", "schedule", "plan">>

\* (\d{1,2}):(\d{2})\s*(am|pm)?
specific_time ==
    Cat(<<Grp(1, Rep(Digit, 1, 2, TRUE)), Lit(":"), Grp(2, Rep(Digit, 2, 2, TRUE)),
          Star(Space), Opt(Grp(3, Words(<<"am", "pm">>)))>>)

\* (\d{1,2})\s*(am|pm)
hour_ampm ==
    Cat(<<Grp(1, Rep(Digit, 1, 2, TRUE)), Star(Space), Grp(2, Words(<<"am", "pm">>))>>)

\* The named times of day of time_patterns, in order.
named_times ==
    <<<<"morning", "09:00">>, <<"afternoon", "14:00">>, <<"evening", "18:00">>,
      <<"night", "20:00">>>>

title_patterns ==
    << \* (?:schedule|plan|book) (.+?) (?:at|on|for|tomorrow|today)
       Cat(<<Words(<<"schedule", "plan", "book">>), Lit(" "), Grp(1, LazyPlus(Dot)),
             Lit(" "), Words(<<"at", "on", "for", "tomorrow", "today">>)>>),
       \* remind me to (.+?)(?:\s+at|\s+on|\s+for|\s+tomorrow|\s+today|$)
       Cat(<<Lit("remind me to "), Grp(1, LazyPlus(Dot)),
             Alt(<<Cat(<<Plus(Space), Lit("at")>>), Cat(<<Plus(Space), Lit("on")>>),
                   Cat(<<Plus(Space), Lit("for")>>), Cat(<<Plus(Space), Lit("tomorrow")>>),
                   Cat(<<Plus(Space), Lit("today")>>), End>>)>>),
       \* (?:schedule|plan|remind me to|book) (.+)
       Cat(<<Words(<<"schedule", "plan", "remind me to", "book">>), Lit(" "),
             Grp(1, Plus(Dot))>>) >>

\* \b(schedule|plan|remind me to|book|at|on|for)\b
scheduling_words_re ==
    Cat(<<Bnd, Grp(1, Words(<<"schedule", "plan", "remind me to", "book", "at", "on", "for">>)),
          Bnd>>)

create_patterns ==
    << \* (?:add|create|new|make)\s+(?:a\s+)?(?:task\s+)?(?:to\s+)?(.+)
       Cat(<<Words(<<"add", "create", "new", "make">>), Plus(Space),
             Opt(Cat(<<Lit("a"), Plus(Space)>>)), Opt(Cat(<<Lit("task"), Plus(Space)>>)),
             Opt(Cat(<<Lit("to"), Plus(Space)>>)), Grp(1, Plus(Dot))>>),
       \* (.+)\s+(?:task|todo)
       Cat(<<Grp(1, Plus(Dot)), Plus(Space), Words(<<"task", "todo">>)>>) >>

\* (?:\s+task)?$
TaskSuffix == Cat(<<Opt(Cat(<<Plus(Space), Lit("task")>>)), End>>)

\* (?:start|begin|working on)\s+(.+?)(?:\s+task)?$
start_re ==
    Cat(<<Words(<<"start", "begin", "working on">>), Plus(Space), Grp(1, LazyPlus(Dot)),
          TaskSuffix>>)

\* (?:complete|finish|mark\s+(?:as\s+)?(?:completed|done)|done)\s+(.+?)(?:\s+task)?$
complete_re ==
    Cat(<<Alt(<<Lit("complete"), Lit("finish"),
                Cat(<<Lit("mark"), Plus(Space), Opt(Cat(<<Lit("as"), Plus(Space)>>)),
                      Words(<<"completed", "done">>)>>),
                Lit("done")>>),
          Plus(Space), Grp(1, LazyPlus(Dot)), TaskSuffix>>)

\* (?:delete|remove)\s+(.+?)(?:\s+task)?$
delete_patterns ==
    <<Cat(<<Words(<<"delete", "remove">>), Plus(Space), Grp(1, LazyPlus(Dot)), TaskSuffix>>)>>

RECURSIVE FirstMatch(_, _)
\* The match m when there is one, else the first match of the patterns left.
OrElse(m, patterns, s) == IF Len(m) > 0 THEN m ELSE FirstMatch(patterns, s)

\* The match of the first pattern of the list that matches s, or None.
FirstMatch(patterns, s) ==
    IF Len(patterns) = 0 THEN None
    ELSE OrElse(Search(Head(patterns), s), Tail(patterns), s)

\* The stripped group n of the match m, "" when there is no match.
GroupText(m, n) == IF Len(m) > 0 THEN Strip(Get(Group(m, n))) ELSE ""

\* The first of title and fallback that is not empty, else "Scheduled task".
TitleOr(title, fallback) ==
    IF title # "" THEN title
    ELSE IF fallback # "" THEN fallback
    ELSE "Scheduled task"

\* "Extract title": the stripped group of the first title pattern that
\* matches, else the text without the scheduling words, else "Scheduled task".
ScheduledTitle(command_lower) ==
    TitleOr(GroupText(FirstMatch(title_patterns, command_lower), 1),
            Strip(Sub(scheduling_words_re, command_lower)))

\* A conversion in which pm always adds 12.
Hour24PmAdds(hour, ampm) ==
    IF ampm = Some("pm") THEN hour + 12
    ELSE IF ampm = Some("am") /\ hour = 12 THEN 0
    ELSE hour

\* The 24-hour hour of an hour with am, pm or no suffix (None).
Hour24(hour, ampm) ==
    IF ampm = Some("pm") /\ hour < 12 THEN hour + 12
    ELSE IF ampm = Some("am") /\ hour = 12 THEN 0
    ELSE hour

RECURSIVE NamedTime(_, _)
NamedTime(names, command_lower) ==
    IF Len(names) = 0 THEN None
    ELSE IF Contains(command_lower, Head(names)[1]) THEN Some(Head(names)[2])
    ELSE NamedTime(Tail(names), command_lower)

\* The due_time of a match of the hour:minute pattern.
SpecificTime(m) ==
    Some(Pad(Hour24(ToNat(Get(Group(m, 1))), Group(m, 3)), 2)
         \o ":" \o Pad(ToNat(Get(Group(m, 2))), 2))

\* The due_time of a match of the hour am/pm pattern.
AmPmTime(m) == Some(Pad(Hour24(ToNat(Get(Group(m, 1))), Group(m, 2)), 2) \o ":00")

\* The due_time of the first of the three time patterns that matched.
TimeOf(specific, ampm, named) ==
    IF Len(specific) > 0 THEN SpecificTime(specific)
    ELSE IF Len(ampm) > 0 THEN AmPmTime(ampm)
    ELSE named

\* "Extract time": the due_time of the first time pattern that matches, or None.
ScheduledTime(command_lower) ==
    TimeOf(Search(specific_time, command_lower), Search(hour_ampm, command_lower),
           NamedTime(named_times, command_lower))

\* d with key set to the text when there is one
WithText(d, key, text) == IF IsNone(text) THEN d ELSE DictSet(d, key, JStr(Get(text)))

\* d with a reminder of 15 minutes when the text asks for one
WithReminder(d, remind) == IF remind THEN DictSet(d, "reminder_time", JInt(15)) ELSE d

\* The priority the scheduling rule reads from the text.
ScheduledPriority(command_lower) ==
    IF AnyIn(<<"urgent", "asap", "immediately">>, command_lower) THEN "URGENT"
    ELSE IF AnyIn(<<"important", "high">>, command_lower) THEN "HIGH"
    ELSE IF AnyIn(<<"low", "minor">>, command_lower) THEN "LOW"
    ELSE "MEDIUM"

\* A due_date that looks for "tomorrow" before "today".
ScheduledDateTomorrowFirst(command_lower, now) ==
    IF Contains(command_lower, "tomorrow") THEN Some(DateStr(AddDays(now, 1)))
    ELSE IF Contains(command_lower, "today") THEN Some(DateStr(now))
    ELSE None

\* The due_date the scheduling rule reads from the text.
ScheduledDate(command_lower, now) ==
    IF Contains(command_lower, "today") THEN Some(DateStr(now))
    ELSE IF Contains(command_lower, "tomorrow") THEN Some(DateStr(AddDays(now, 1)))
    ELSE None

\* The descriptor of the scheduling rule.
ScheduleDescriptor(command_lower, now) ==
    WithReminder(
        WithText(
            WithText([action |-> JStr("create"), confidence |-> JFloat("0.8"),
                      task_title |-> JStr(ScheduledTitle(command_lower)),
                      priority |-> JStr(ScheduledPriority(command_lower))],
                     "due_time", ScheduledTime(command_lower)),
            "due_date", ScheduledDate(command_lower, now)),
        Contains(command_lower, "remind"))

\* The descriptor of the listing rule.
ListDescriptor(command_lower, now) ==
    LET base == [action |-> JStr("list"), confidence |-> JFloat("0.8")]
        dated == WithText(base, "date_filter",
                          IF AnyIn(<<"today", "today's">>, command_lower)
                          THEN Some(DateStr(now))
                          ELSE IF AnyIn(<<"tomorrow", "tomorrow's">>, command_lower)
                          THEN Some(DateStr(AddDays(now, 1)))
                          ELSE None)
    IN WithText(dated, "state_filter",
                IF Contains(command_lower, "completed") THEN Some(COMPLETED)
                ELSE IF Contains(command_lower, "progress") THEN Some(IN_PROGRESS)
                ELSE IF Contains(command_lower, "pending")
                        \/ Contains(command_lower, "not started")
                THEN Some(NOT_STARTED)
                ELSE None)

Chat(message, confidence) ==
    [action |-> JStr("chat"), message |-> JStr(message), confidence |-> JFloat(confidence)]

\* An update descriptor whose action is written "update".
UpdateStateAsUpdate(task_title, new_state) ==
    [action |-> JStr("update"), task_title |-> JStr(task_title),
     new_state |-> JStr(new_state), confidence |-> JFloat("0.9")]

UpdateState(task_title, new_state) ==
    [action |-> JStr("update_state"), task_title |-> JStr(task_title),
     new_state |-> JStr(new_state), confidence |-> JFloat("0.9")]

\* The descriptor of the first of the four task rules that matched.
TaskDescriptor(created, started, completed, deleted) ==
    IF Len(created) > 0
    THEN [action |-> JStr("create"), task_title |-> JStr(Strip(Get(Group(created, 1)))),
          confidence |-> JFloat("0.8")]
    ELSE IF Len(started) > 0
    THEN UpdateState(Strip(Get(Group(started, 1))), IN_PROGRESS)
    ELSE IF Len(completed) > 0
    THEN UpdateState(Strip(Get(Group(completed, 1))), COMPLETED)
    ELSE IF Len(deleted) > 0
    THEN [action |-> JStr("delete"), task_title |-> JStr(Strip(Get(Group(deleted, 1)))),
          confidence |-> JFloat("0.8")]
    ELSE Chat("unclear", "0.5")

\* The rules after the general-conversation test, in order.
TaskRules(command_lower) ==
    TaskDescriptor(
        IF AnyIn(<<"add", "create", "new", "make">>, command_lower)
        THEN FirstMatch(create_patterns, command_lower) ELSE None,
        IF AnyIn(<<"start", "begin", "working">>, command_lower)
        THEN Search(start_re, command_lower) ELSE None,
        IF AnyIn(<<"complete", "finish", "done">>, command_lower)
        THEN Search(complete_re, command_lower) ELSE None,
        FirstMatch(delete_patterns, command_lower))

\* The rules with the listing rule tried before the scheduling rule.
PatternRulesListFirst(command, now) ==
    LET command_lower == Strip(Lower(command)) IN
    IF command_lower \in greetings THEN Chat("greeting", "0.9")
    ELSE IF AnyIn(help_words, command_lower) THEN Chat("help", "0.9")
    ELSE IF AnyIn(list_words, command_lower) THEN ListDescriptor(command_lower, now)
    ELSE IF AnyIn(schedule_words, command_lower) THEN ScheduleDescriptor(command_lower, now)
    ELSE IF ~AnyIn(task_keywords, command_lower) THEN Chat("general", "0.8")
    ELSE TaskRules(command_lower)

\* The rules of AIService._parse_with_patterns(command), first match wins; now
\* is today's date.
PatternRules(command, now) ==
    LET command_lower == Strip(Lower(command)) IN
    IF command_lower \in greetings THEN Chat("greeting", "0.9")
    ELSE IF AnyIn(help_words, command_lower) THEN Chat("help", "0.9")
    ELSE IF AnyIn(schedule_words, command_lower) THEN ScheduleDescriptor(command_lower, now)
    ELSE IF AnyIn(list_words, command_lower) THEN ListDescriptor(command_lower, now)
    ELSE IF ~AnyIn(task_keywords, command_lower) THEN Chat("general", "0.8")
    ELSE TaskRules(command_lower)

\* The dates the clock may show: the last day of a February and of a year.
Dates == {<<2026, 2, 28>>, <<2027, 12, 31>>}

\* Command texts.
Commands ==
    <<"complete presentation", "finish draft", "begin draft", "delete draft",
      "show my tasks", "list completed tasks", "hello",
      "Schedule meeting tomorrow at 3pm">>

\* The rules' results for the texts and dates drawn, computed once: the rules
\* read nothing but the text and the date.
PatternTable ==
    {[command |-> Commands[c], now |-> d, parsed |-> PatternRules(Commands[c], d)] :
       c \in 1..Len(Commands), d \in Dates}

\* The table's result for a text and a date.
Parsed(table, command, now) ==
    (CHOOSE m \in table : m.command = command /\ m.now = now).parsed

\* AIService._parse_with_patterns(command)
parse_with_patterns(command, now) == Parsed(PatternTable, command, now)

(***************************************************************************)
(* AIService._parse_with_gemini, _parse_command and process_command.       *)
(*                                                                         *)
(* What the generative service does in one call is an input of the model:  *)
(*   [kind |-> "absent"]   no client is configured (gemini_client is None) *)
(*   [kind |-> "error"]    generate_content raises                         *)
(*   [kind |-> "no_text"]  the response holds no text (response.text None) *)
(*   [kind |-> "text", fence, closed, doc]  the response's text: an        *)
(*       opening fence (NoFence, Fence or JsonFence), a document, and a    *)
(*       closing fence when closed.  A document is [wf |-> FALSE] (not well-formed *)
(*       JSON) or [wf |-> TRUE, value |-> the JSON value it denotes].      *)
(***************************************************************************)
LlmAbsent == [kind |-> "absent"]
LlmError == [kind |-> "error"]
LlmNoText == [kind |-> "no_text"]
LlmText(fence, closed, doc) == [kind |-> "text", fence |-> fence, closed |-> closed, doc |-> doc]
Malformed == [wf |-> FALSE]
\* The opening of the text: nothing, three backticks, three backticks and "json".
NoFence == ""
Fence == "fence"
JsonFence == "fence json"
Doc(value) == [wf |-> TRUE, value |-> value]

\* "Extract JSON from response": the document left of the stripped text by
\* json_text[7:-3] or json_text[3:-3] after an opening fence.  The slice drops
\* the last three characters: the closing fence, or else the document's own
\* end, which leaves no well-formed JSON of an object.
ExtractJson(reply) ==
    IF reply.fence = NoFence THEN reply.doc
    ELSE IF reply.closed THEN reply.doc
    ELSE Malformed

\* json.loads(json_text)
json_loads(doc) ==
    IF doc.wf THEN Return(doc.value)
    ELSE Raise("JSONDecodeError", "Expecting value: line 1 column 1 (char 0)")

\* An except clause that hands the service's failure on instead of falling
\* back.
GeminiNoFallback(command, now) == Raise("ClientError", "the service call failed")

\* "Fallback to pattern matching"
GeminiFallback(command, now) ==
    normalize_parsed_command(JObject(parse_with_patterns(command, now)), now)

\* The descriptor of what json.loads returned, or what it raised.
Loaded(loaded, now) ==
    IF Raised(loaded) THEN loaded ELSE normalize_parsed_command(loaded.value, now)

\* The try block of _parse_with_gemini: the value it returns or what it raises.
GeminiTry(llm, now) ==
    IF llm.kind = "error" THEN Raise("ClientError", "the service call failed")
    ELSE IF llm.kind = "no_text" THEN AttributeError(JNull, "strip")
    ELSE Loaded(json_loads(ExtractJson(llm)), now)

\* try: ... except Exception: the handler's result when the block raised
TryExcept(tried, handled) == IF Raised(tried) THEN handled ELSE tried

\* AIService._parse_with_gemini(command)
parse_with_gemini(llm, command, now) ==
    TryExcept(GeminiTry(llm, now), GeminiFallback(command, now))

\* AIService._parse_command(command)
parse_command(llm, command, now) ==
    IF llm.kind # "absent"
    THEN parse_with_gemini(llm, command, now)
    ELSE Return(JObject(parse_with_patterns(command, now)))

\* A process_command without its except clause: what was raised goes on to
\* the caller.
ProcessNoExcept(r) == r

\* except Exception as e: the failed response of process_command
ProcessExcept(r) ==
    IF Raised(r.out)
    THEN [db |-> r.db,
          out |-> Failure("Sorry, I couldn't process that command: " \o r.out.str)]
    ELSE r

\* The try block of process_command once the command is parsed.
ProcessTry(db, parsed_command, user_id) ==
    IF Raised(parsed_command) THEN [db |-> db, out |-> parsed_command]
    ELSE execute_action(db, parsed_command.value, user_id)

\* AIService.process_command(command, user_id): [db, out]
process_command(db, command, user_id, llm, now) ==
    ProcessExcept(ProcessTry(db, parse_command(llm, command, now), user_id))

(***************************************************************************)
(* The inputs the model draws.                                             *)
(***************************************************************************)
\* Requests of POST /tasks.
CreateRequests ==
    <<TaskCreate("Presentation draft"),
      TaskCreate("Presentation review"),
      [TaskCreate("presentation") EXCEPT
         !.description = Some("slides"), !.priority = Some("HIGH"),
         !.category = Some("Work"), !.scheduled_date = Some(<<2026, 3, 2>>),
         !.scheduled_time = Some(<<9, 30>>), !.due_date = Some(<<2026, 3, 6>>),
         !.due_time = Some(<<17, 0>>), !.reminder_time = Some(30)]>>

\* Requests of PUT /tasks/{task_id}.
UpdateRequests ==
    <<[TaskUpdate EXCEPT !.state = Some(NOT_STARTED)],
      [TaskUpdate EXCEPT !.state = Some(IN_PROGRESS)],
      [TaskUpdate EXCEPT !.state = Some(COMPLETED)],
      [TaskUpdate EXCEPT !.title = Some("Presentation draft"), !.state = Some(COMPLETED)]>>

\* Title patterns of a direct search.
SearchPatterns == <<"presentation", "Draft", "p_e">>

\* Descriptors a generative service may reply with.
ReplyValues ==
    <<JObject([action |-> JStr("update_state"), task_title |-> JStr("presentation"),
               new_state |-> JStr(IN_PROGRESS)]),
      JObject([action |-> JStr("update_state"), task_title |-> JStr(" draft "),
               new_state |-> JStr(COMPLETED)]),
      JObject([action |-> JStr("update_state"), task_title |-> JStr("draft"),
               new_state |-> JStr("Done")]),
      JObject([action |-> JStr("update_state"), task_title |-> JStr("draft")]),
      JObject([action |-> JStr("delete"), task_title |-> JStr("presentation")]),
      JObject([action |-> JStr("create"), task_title |-> JStr("Presentation review")]),
      JObject([action |-> JStr("create"), task_title |-> JStr("presentation"),
               state |-> JStr(COMPLETED), new_state |-> JStr(COMPLETED),
               priority |-> JStr("high"), due_date |-> JStr("[Tomorrow]"),
               due_time |-> JStr("Morning"), scheduled_date |-> JStr("YYYY-MM-DD")]),
      JObject([action |-> JStr("create"), task_title |-> JStr("draft"),
               due_time |-> JStr("25:00")]),
      JObject([action |-> JStr("create"), task_title |-> JNull]),
      JObject([action |-> JStr("list"), state_filter |-> JStr("Done")]),
      JObject([action |-> JStr("list"), state_filter |-> JStr(IN_PROGRESS),
               date_filter |-> JStr("today")]),
      JObject([action |-> JStr("chat"), message |-> JStr("help")]),
      JObject([action |-> JStr("update_task"), task_title |-> JStr("draft"),
               new_title |-> JStr("final")]),
      JArray(<<>>),
      JStr("delete draft"),
      JInt(7),
      JObject([action |-> JStr("chat"), message |-> JStr("greeting")]),
      JObject([action |-> JStr("chat"), message |-> JStr("general")]),
      JObject([action |-> JStr("chat"), message |-> JStr("unclear")]),
      JObject([action |-> JStr("chat"), message |-> JStr("joke")]),
      JObject([action |-> JStr("chat"), message |-> JNull]),
      JObject([action |-> JStr("chat")]),
      JObject([action |-> JStr("list")]),
      JObject([action |-> JStr("list"), state_filter |-> JStr("")]),
      JObject([task_title |-> JStr("draft")]),
      JObject([action |-> JStr("Create"), task_title |-> JStr("memo")]),
      JObject([action |-> JNull, task_title |-> JStr("draft")]),
      JNull>>

\* What the service does in a call that yields no descriptor.
LlmFailures ==
    <<LlmAbsent, LlmError, LlmNoText, LlmText(NoFence, FALSE, Malformed),
      LlmText(JsonFence, FALSE, Doc(ReplyValues[2]))>>

\* The replies that carry a JSON value, fenced and bare.
LlmReplies ==
    [i \in 1..Len(ReplyValues) |->
       LlmText(IF i % 3 = 0 THEN JsonFence ELSE IF i % 3 = 1 THEN NoFence ELSE Fence,
               i % 3 # 1, Doc(ReplyValues[i]))]

(***************************************************************************)
(* The state machine: one action per endpoint of api/tasks.py, plus the    *)
(* store's title search called on its own.                                 *)
(***************************************************************************)
\* The requests that can be in progress at once, each with a database session
\* of its own (api/tasks.py: Depends(get_db)); a session is closed when no
\* request holds it.
Sessions == {1, 2}

ClosedSession == [pc |-> "closed"]

NoSessions == [s \in Sessions |-> ClosedSession]

Init ==
    /\ tasks = EmptyTable
    /\ today = <<2026, 2, 28>>
    /\ pre = EmptyTable
    /\ last = [op |-> "init", user |-> 0]
    /\ sessions = NoSessions

\* The tables the model keeps: the creation endpoint fills primary keys up to
\* MaxTasks, and a command may add the one after.
Fits(db) == DOMAIN db \subseteq 1..MaxTasks

FitsCommand(db) == DOMAIN db \subseteq 1..(MaxTasks + 1)

\* POST /tasks
CreateTask(u, task) ==
    \E r \in {create_task(tasks, task, u)} :
    /\ Fits(r.db)
    /\ tasks' = r.db
    /\ pre' = tasks
    /\ last' = [op |-> "create_task", user |-> u, arg |-> task, out |-> r.out]
    /\ UNCHANGED <<today, sessions>>

\* GET /tasks
GetTasks(u, state) ==
    /\ last' = [op |-> "get_tasks", user |-> u, arg |-> state,
                out |-> Return(get_tasks(tasks, u, state))]
    /\ pre' = tasks
    /\ UNCHANGED <<tasks, today, sessions>>

\* GET /tasks/{task_id}
GetTask(u, task_id) ==
    /\ last' = [op |-> "get_task", user |-> u, id |-> task_id,
                out |-> IF IsNone(get_task(tasks, task_id, u))
                        THEN HTTPException(HTTP_404_NOT_FOUND, "Task not found")
                        ELSE Return(Get(get_task(tasks, task_id, u)))]
    /\ pre' = tasks
    /\ UNCHANGED <<tasks, today, sessions>>

\* PUT /tasks/{task_id}
UpdateTask(u, task_id, task_update) ==
    \E r \in {update_task(tasks, task_id, task_update, u)} :
    /\ tasks' = r.db
    /\ pre' = tasks
    /\ last' = [op |-> "update_task", user |-> u, id |-> task_id, arg |-> task_update,
                out |-> r.out]
    /\ UNCHANGED <<today, sessions>>

\* DELETE /tasks/{task_id}
DeleteTask(u, task_id) ==
    \E r \in {delete_task(tasks, task_id, u)} :
    /\ tasks' = r.db
    /\ pre' = tasks
    /\ last' = [op |-> "delete_task", user |-> u, id |-> task_id, out |-> r.out]
    /\ UNCHANGED <<today, sessions>>

\* TaskService.search_tasks_by_title
SearchTasks(u, title_pattern) ==
    /\ last' = [op |-> "search_tasks_by_title", user |-> u, arg |-> title_pattern,
                out |-> Return(search_tasks_by_title(tasks, title_pattern, u))]
    /\ pre' = tasks
    /\ UNCHANGED <<tasks, today, sessions>>

\* POST /tasks/ai-command
ProcessCommand(u, command, llm) ==
    \E r \in {process_command(tasks, command, u, llm, today)} :
    /\ FitsCommand(r.db)
    /\ tasks' = r.db
    /\ pre' = tasks
    /\ last' = [op |-> "process_command", user |-> u, arg |-> command, llm |-> llm,
                out |-> r.out]
    /\ UNCHANGED <<today, sessions>>

\* The descriptor the normalizer is given.
Descriptor(parsed_command) ==
    /\ last.op = "descriptor"
    /\ last.arg = parsed_command
    /\ last' = [op |-> "normalize_parsed_command", arg |-> parsed_command,
                out |-> normalize_parsed_command(parsed_command, today)]
    /\ pre' = tasks
    /\ UNCHANGED <<tasks, today, sessions>>

TaskIds == 1..MaxTasks

States == {None, Some(IN_PROGRESS)}

\* The store's operations, and the commands that start and delete a task.
Next ==
    \/ \E u \in Users, i \in {1, 3} : CreateTask(u, CreateRequests[i])
    \/ \E u \in Users, state \in States : GetTasks(u, state)
    \/ \E u \in Users, id \in TaskIds : GetTask(u, id)
    \/ \E u \in Users, id \in TaskIds, i \in 1..Len(UpdateRequests) :
          UpdateTask(u, id, UpdateRequests[i])
    \/ \E u \in Users, id \in TaskIds : DeleteTask(u, id)
    \/ \E u \in Users, i \in 1..Len(SearchPatterns) : SearchTasks(u, SearchPatterns[i])
    \/ \E u \in Users, c \in 3..4 : ProcessCommand(u, Commands[c], LlmAbsent)

Spec == Init /\ [][Next]_vars

\* The rows the command specifications start from: two of user 1, one of user 2.
CreateAny ==
    \/ \E i \in 1..2 : CreateTask(1, CreateRequests[i])
    \/ CreateTask(2, CreateRequests[3])

\* Commands of user 1 when no descriptor comes from the generative service.
NextAI ==
    \/ CreateAny
    \/ \E c \in 1..Len(Commands), f \in 1..2 : ProcessCommand(1, Commands[c], LlmFailures[f])
    \/ \E f \in 3..Len(LlmFailures) : ProcessCommand(1, Commands[3], LlmFailures[f])

SpecAI == Init /\ [][NextAI]_vars

\* Commands of user 1 when the generative service replies with a JSON value,
\* and a greeting when it is absent or fails.
NextLLM ==
    \/ CreateAny
    \/ \E i \in 1..Len(LlmReplies) : ProcessCommand(1, Commands[1], LlmReplies[i])
    \/ \E f \in 1..2 : ProcessCommand(1, Commands[7], LlmFailures[f])

SpecLLM == Init /\ [][NextLLM]_vars

\* The normalizer on its own: a descriptor with one date and one time field.
DateValues ==
    <<JStr("today"), JStr("[Tomorrow]"), JStr("YYYY-MM-DD"), JStr("2026-03-15"),
      JStr("2026-02-30"), JStr("2026-2-8"), JStr("next week"), JStr(""), JNull, JInt(5)>>

TimeValues ==
    <<JStr("Morning"), JStr("[noon]"), JStr("HH:MM"), JStr("14:30"), JStr("9:05"),
      JStr("25:99"), JStr("3pm"), JStr(""), JNull, JInt(9)>>

FieldPairs ==
    <<<<"due_date", "due_time">>, <<"scheduled_date", "scheduled_time">>,
      <<"date_filter", "due_time">>>>

\* Priorities in several casings, one that is no priority and one that is no
\* text.
PriorityValues == <<JStr("high"), JStr("Urgent"), JStr("MEDIUM"), JStr("critical"), JInt(3)>>

\* The descriptor with a priority, or as it is for index 0.
WithPriority(d, p) == IF p = 0 THEN d ELSE DictSet(d, "priority", PriorityValues[p])

Descriptors ==
    {JObject(WithPriority([action |-> JStr("create")] @@ (FieldPairs[f][1] :> DateValues[d])
                            @@ (FieldPairs[f][2] :> TimeValues[t]), p)) :
       f \in 1..Len(FieldPairs), d \in 1..Len(DateValues), t \in 1..Len(TimeValues),
       p \in 0..Len(PriorityValues)}

InitNorm ==
    /\ tasks = EmptyTable
    /\ today \in Dates
    /\ pre = EmptyTable
    /\ \E parsed_command \in Descriptors : last = [op |-> "descriptor", arg |-> parsed_command]
    /\ sessions = NoSessions

NextNorm == \E parsed_command \in Descriptors : Descriptor(parsed_command)

SpecNorm == InitNorm /\ [][NextNorm]_vars

\* The pattern interpreter on its own: a text is drawn and interpreted.
Texts ==
    {"hello", "good afternoon", " Good Afternoon ", "hey help", "what can you do",
     "help me schedule a meeting", "Schedule meeting tomorrow at 3pm",
     "Remind me to call John today", "list tasks on monday", "start meeting",
     "complete presentation", "delete appointment", "create a task to buy milk",
     "what's pending today", "show my tasks", "list completed tasks",
     "view tasks in progress", "show new task", "thanks", "how are you",
     "add buy milk", "make a task to buy milk", "new grocery todo", "add",
     "begin draft", "start draft task", "start", "working", "finish draft",
     "done reading", "draft finish", "delete draft", "remove old task", "see",
     "begin draft then delete it", "finish draft then begin memo",
     "add draft then delete it", "delete draft then finish it", "task", "",
     "Book room today or tomorrow", "Remind me to pay rent", "Meeting TODAY",
     "Start working on presentation", "Start working on presentation task",
     "Mark presentation as completed", "Complete the research task",
     "Delete old appointment"}

\* Texts of the scheduling rule with a 12-hour time: the hour h, the minutes
\* mm (none when negative), the separator and am or pm.
TimeText(h, mm, sep, ampm) ==
    "Schedule meeting tomorrow at " \o NatStr(h)
    \o (IF mm < 0 THEN "" ELSE ":" \o Pad(mm, 2)) \o sep \o ampm

ClockHours == 1..12

ClockMinutes == {-1, 0, 5, 30, 59}

TimeTexts ==
    {TimeText(h, mm, sep, ampm) :
       h \in ClockHours, mm \in ClockMinutes, sep \in {"", " "}, ampm \in {"am", "PM"}}

InitPatterns ==
    /\ tasks = EmptyTable
    /\ today \in Dates
    /\ pre = EmptyTable
    /\ \E command \in Texts \cup TimeTexts : last = [op |-> "text", arg |-> command]
    /\ sessions = NoSessions

\* AIService._parse_with_patterns(command) on the text drawn
ParseWithPatterns(command) ==
    /\ last.op = "text"
    /\ last.arg = command
    /\ last' = [op |-> "parse_with_patterns", arg |-> command,
                out |-> PatternRules(command, today)]
    /\ pre' = tasks
    /\ UNCHANGED <<tasks, today, sessions>>

NextPatterns == \E command \in Texts \cup TimeTexts : ParseWithPatterns(command)

SpecPatterns == InitPatterns /\ [][NextPatterns]_vars

(***************************************************************************)
(* Requests in progress.  TaskService.update_task reads the row, sets and  *)
(* validates in memory, and commits; the delete and update_state branches  *)
(* of _execute_action search by title and then call the store.  Between    *)
(* the two steps of one request the steps of other requests may run.       *)
(***************************************************************************)
\* What the unit of work raises when the row of a pending UPDATE is gone.
StaleDataError ==
    Raise("StaleDataError",
          "UPDATE statement on table 'tasks' expected to update 1 row(s); 0 were matched.")

\* The flush of a commit: the UPDATE of the session's loaded row writes the
\* columns whose in-memory value differs from the loaded one; no statement
\* is sent when none differs.
flush(db, task_id, loaded, obj) ==
    IF obj = loaded THEN [db |-> db, out |-> Return(FALSE)]
    ELSE IF task_id \notin DOMAIN db THEN [db |-> db, out |-> StaleDataError]
    ELSE [db |-> [db EXCEPT ![task_id] =
                    [f \in DOMAIN @ |-> IF obj[f] # loaded[f] THEN obj[f] ELSE @[f]]],
          out |-> Return(TRUE)]

\* The refresh after the commit, on the table the flush left.
Refreshed(flushed, task_id) ==
    IF Raised(flushed.out) THEN flushed
    ELSE IF task_id \notin DOMAIN flushed.db
    THEN [db |-> flushed.db,
          out |-> Raise("InvalidRequestError", "Could not refresh instance")]
    ELSE [db |-> flushed.db, out |-> Return([id |-> task_id, row |-> flushed.db[task_id]])]

\* The end of TaskService.update_task: commit, refresh, return.
update_task_commit(db, task_id, loaded, obj) ==
    Refreshed(flush(db, task_id, loaded, obj), task_id)

\* TaskService.create_task on a session that holds a row with pending
\* changes: its commit flushes them with the INSERT.
Inserted(flushed, task, user_id) ==
    IF Raised(flushed.out) THEN flushed ELSE create_task(flushed.db, task, user_id)

create_task_pending(db, task, user_id, task_id, loaded, obj) ==
    Inserted(flush(db, task_id, loaded, obj), task, user_id)

\* The session of a request that has loaded a row for update_task.
Loading(pc, u, task_id, task_update, loaded, obj) ==
    [pc |-> pc, user |-> u, id |-> task_id, arg |-> task_update,
     loaded |-> loaded, obj |-> obj]

\* update_task up to the commit: the row is read, the fields of the request
\* are set on it in memory and the state is validated against the one read.
UpdateLoad(s, u, task_id, task_update) ==
    /\ sessions[s] = ClosedSession
    /\ \E r \in {update_task(tasks, task_id, task_update, u)} :
         /\ sessions' =
              IF IsNone(r.obj) THEN sessions
              ELSE [sessions EXCEPT ![s] =
                      Loading(IF Raised(r.out) THEN "rejected" ELSE "dirty",
                              u, task_id, task_update, tasks[task_id], Get(r.obj))]
         /\ last' = [op |-> "update_task_load", session |-> s, user |-> u,
                     id |-> task_id, arg |-> task_update,
                     out |-> IF Raised(r.out) THEN r.out ELSE Return(Get(r.obj))]
    /\ pre' = tasks
    /\ UNCHANGED <<tasks, today>>

\* update_task from the commit on; the request ends.
UpdateCommit(s) ==
    /\ sessions[s].pc = "dirty"
    /\ \E r \in {update_task_commit(tasks, sessions[s].id, sessions[s].loaded,
                                    sessions[s].obj)} :
         /\ tasks' = r.db
         /\ last' = [op |-> "update_task_commit", session |-> s,
                     user |-> sessions[s].user, id |-> sessions[s].id,
                     arg |-> sessions[s].arg, loaded |-> sessions[s].loaded,
                     out |-> r.out]
    /\ pre' = tasks
    /\ sessions' = [sessions EXCEPT ![s] = ClosedSession]
    /\ UNCHANGED today

\* create_task called on the TaskService whose update_task was rejected.
SessionCreate(s, task) ==
    /\ sessions[s].pc = "rejected"
    /\ \E r \in {create_task_pending(tasks, task, sessions[s].user, sessions[s].id,
                                     sessions[s].loaded, sessions[s].obj)} :
         /\ Fits(r.db)
         /\ tasks' = r.db
         /\ last' = [op |-> "create_task", session |-> s, user |-> sessions[s].user,
                     arg |-> task, rejected |-> sessions[s], out |-> r.out]
    /\ pre' = tasks
    /\ sessions' = [sessions EXCEPT ![s] = ClosedSession]
    /\ UNCHANGED today

\* The request whose update_task was rejected ends: its session is closed
\* with what it holds.
SessionClose(s) ==
    /\ sessions[s].pc = "rejected"
    /\ last' = [op |-> "close", session |-> s, user |-> sessions[s].user,
                rejected |-> sessions[s]]
    /\ pre' = tasks
    /\ sessions' = [sessions EXCEPT ![s] = ClosedSession]
    /\ UNCHANGED <<tasks, today>>

\* The update_state and delete branches up to "task = matching_tasks[0]":
\* the outcome when the branch ends before it, else the task found.
resolve_task(db, d, user_id, verb) ==
    LET t == DictGet(d, "task_title", JStr("")) IN
    IF t.k # "str" THEN [out |-> Some(AttributeError(t, "strip")), task |-> None]
    ELSE IF Strip(t.v) = ""
    THEN [out |-> Some(Failure("Please specify which task to " \o verb \o ".")),
          task |-> None]
    ELSE IF Len(search_tasks_by_title(db, Strip(t.v), user_id)) = 0
    THEN [out |-> Some(Failure("No tasks found matching '" \o Strip(t.v) \o "'")),
          task |-> None]
    ELSE IF Len(search_tasks_by_title(db, Strip(t.v), user_id)) > 1
    THEN [out |-> Some(Ambiguous(db, search_tasks_by_title(db, Strip(t.v), user_id)).out),
          task |-> None]
    ELSE [out |-> None, task |-> Some(search_tasks_by_title(db, Strip(t.v), user_id)[1])]

\* The delete branch from "task = matching_tasks[0]" on.
delete_resolved(db, task, user_id) ==
    IF Raised(delete_task(db, task.id, user_id).out)
    THEN delete_task(db, task.id, user_id)
    ELSE [db |-> delete_task(db, task.id, user_id).db,
          out |-> Return(AICommandResponse(TRUE,
                     "Deleted task: '" \o task.row.title \o "'",
                     Some("delete"), Some(task.id), None))]

\* The response of the update_state branch to what update_task gave.
UpdatedResponse(upd, new_state) ==
    IF Raised(upd.out) THEN [db |-> upd.db, out |-> upd.out]
    ELSE [db |-> upd.db,
          out |-> Return(AICommandResponse(TRUE,
                     "Updated '" \o upd.out.value.row.title \o "' to '"
                     \o PyStr(new_state) \o "'",
                     Some("update_state"), Some(upd.out.value.id), None))]

\* The update_state branch from "task = matching_tasks[0]" on.
update_state_resolved(db, d, task, user_id) ==
    IF IsNone(TaskStateOf(DictGet(d, "new_state", JNull)))
    THEN [db |-> db,
          out |-> Failure("Invalid state: " \o PyStr(DictGet(d, "new_state", JNull)))]
    ELSE UpdatedResponse(
           update_task(db, task.id,
                       [TaskUpdate EXCEPT
                          !.state = TaskStateOf(DictGet(d, "new_state", JNull))],
                       user_id),
           DictGet(d, "new_state", JNull))

\* The verb of the branch's "Please specify" text.
Verb(parsed_command) ==
    IF IsText(DictGet(parsed_command.v, "action", JNull), "delete")
    THEN "delete" ELSE "update"

\* The session of a command that has found its task.
Resolved(u, parsed_command, task) ==
    [pc |-> "resolved", user |-> u, arg |-> parsed_command, task |-> task]

\* What ExecuteResolve does with what the search gave.
ResolveStep(s, u, parsed_command, r) ==
    /\ sessions' = IF IsNone(r.task) THEN sessions
                   ELSE [sessions EXCEPT ![s] = Resolved(u, parsed_command, Get(r.task))]
    /\ last' = [op |-> "execute_resolve", session |-> s, user |-> u,
                arg |-> parsed_command,
                out |-> IF IsNone(r.task)
                        THEN ExecuteExcept([db |-> tasks, out |-> Get(r.out)]).out
                        ELSE Return(Get(r.task))]

\* _execute_action on an update_state or a delete descriptor, up to the task
\* the title search finds.
ExecuteResolve(s, u, parsed_command) ==
    /\ sessions[s] = ClosedSession
    /\ ResolveStep(s, u, parsed_command,
                   resolve_task(tasks, parsed_command.v, u, Verb(parsed_command)))
    /\ pre' = tasks
    /\ UNCHANGED <<tasks, today>>

\* What ExecuteStore does with what the branch gave.
StoreStep(s, r) ==
    /\ tasks' = r.db
    /\ last' = [op |-> "execute_store", session |-> s, user |-> sessions[s].user,
                arg |-> sessions[s].arg, task |-> sessions[s].task, out |-> r.out]

\* _execute_action from the found task on: the call of the store and the
\* response; the request ends.
ExecuteStore(s) ==
    /\ sessions[s].pc = "resolved"
    /\ StoreStep(s, ExecuteExcept(
                      IF Verb(sessions[s].arg) = "delete"
                      THEN delete_resolved(tasks, sessions[s].task, sessions[s].user)
                      ELSE update_state_resolved(tasks, sessions[s].arg.v,
                                                 sessions[s].task, sessions[s].user)))
    /\ pre' = tasks
    /\ sessions' = [sessions EXCEPT ![s] = ClosedSession]
    /\ UNCHANGED today

\* The descriptors of the commands in progress.
SessionDescriptors == <<ReplyValues[2], ReplyValues[5]>>

\* update_task calls of user 1 in progress at once, with the creations of
\* whole requests and the deletion of the newest row between their steps.
NextUpdates ==
    \/ CreateAny
    \/ DeleteTask(1, MaxTasks)
    \/ \E s \in Sessions, id \in TaskIds, i \in 2..Len(UpdateRequests) :
          UpdateLoad(s, 1, id, UpdateRequests[i])
    \/ \E s \in Sessions : UpdateCommit(s)
    \/ \E s \in Sessions : SessionCreate(s, CreateRequests[2])
    \/ \E s \in Sessions : SessionClose(s)

SpecUpdates == Init /\ [][NextUpdates]_vars

\* Commands of user 1 in progress at once, with the creations and the
\* deletions of whole requests between their steps.
NextCommands ==
    \/ CreateAny
    \/ \E u \in Users, id \in TaskIds : DeleteTask(u, id)
    \/ \E s \in Sessions, i \in 1..Len(SessionDescriptors) :
          ExecuteResolve(s, 1, SessionDescriptors[i])
    \/ \E s \in Sessions : ExecuteStore(s)

SpecCommands == Init /\ [][NextCommands]_vars

(***************************************************************************)
(* The properties.                                                         *)
(***************************************************************************)
\* The last operation was TaskService.update_task on a row the caller owns,
\* with a state in the request.
UpdatedOwnState ==
    /\ last.op = "update_task"
    /\ last.id \in DOMAIN pre
    /\ pre[last.id].user_id = last.user
    /\ ~IsNone(last.arg.state)

\* C1: update_task with a state in the request changes the task's state only
\* for the pairs (Not Started, In Progress) and (In Progress, Completed); for
\* every other pair of current and requested state the call raises the
\* invalid-transition error (400) and the table is as it was.
C1_LinearTransitions ==
    UpdatedOwnState =>
      IF <<pre[last.id].state, Get(last.arg.state)>>
           \in {<<NOT_STARTED, IN_PROGRESS>>, <<IN_PROGRESS, COMPLETED>>}
      THEN /\ ~Raised(last.out)
           /\ tasks[last.id].state = Get(last.arg.state)
      ELSE /\ Raised(last.out)
           /\ last.out.exc = "HTTPException"
           /\ last.out.status = HTTP_400_BAD_REQUEST
           /\ StartsWithAt(last.out.detail, "Invalid state transition from '", 1)
           /\ tasks = pre

\* A request on a Completed task, and a skip from Not Started to Completed,
\* have been rejected, and a task has been started.
C1_Witness ==
    /\ UpdatedOwnState
    /\ pre[last.id].state = COMPLETED
    /\ Get(last.arg.state) = IN_PROGRESS
    /\ Raised(last.out)

\* The last operation was process_command.
Commanded == last.op = "process_command"

\* The descriptor the last command was interpreted as (a raised outcome when
\* the interpretation raised).
LastParsed == parse_command(last.llm, last.arg, today)

\* The last command's descriptor is an object whose action is the given one.
LastAction(action) ==
    /\ Commanded
    /\ ~Raised(LastParsed)
    /\ LastParsed.value.k = "object"
    /\ IsText(DictGet(LastParsed.value.v, "action", JNull), action)

\* The title of the last command's descriptor, stripped as the dispatcher
\* strips it, when it is a non-empty text.
LastTitle ==
    LET t == DictGet(LastParsed.value.v, "task_title", JStr("")) IN
    IF t.k = "str" /\ Strip(t.v) # "" THEN Some(Strip(t.v)) ELSE None

\* The caller's rows the title search gave the last command.
LastMatches ==
    IF IsNone(LastTitle) THEN <<>>
    ELSE search_tasks_by_title(pre, Get(LastTitle), last.user)

\* The last command was an update_state whose title matched exactly one task
\* of the caller, and that task was Completed.
UpdateOfCompleted ==
    /\ LastAction("update_state")
    /\ Len(LastMatches) = 1
    /\ LastMatches[1].row.state = COMPLETED

LastNewState == DictGet(LastParsed.value.v, "new_state", JNull)

\* C2 as stated: an update_state command with any new_state on a uniquely
\* matched Completed task fails with the store's invalid-transition text and
\* leaves the table as it was.
C2_AnyNewState ==
    UpdateOfCompleted =>
      /\ ~Raised(last.out)
      /\ last.out.value.success = FALSE
      /\ Contains(last.out.value.message, "Invalid state transition from 'Completed'")
      /\ tasks = pre

\* C2 amended: an update_state command whose new_state is one of the three
\* state labels, on a uniquely matched Completed task, returns success=false
\* with the store's invalid-transition text in the message, and the table is
\* as it was; with any other new_state it also fails and changes nothing.
C2_CompletedStays ==
    UpdateOfCompleted =>
      /\ ~Raised(last.out)
      /\ last.out.value.success = FALSE
      /\ tasks = pre
      /\ (LastNewState.k = "str" /\ LastNewState.v \in TaskState) =>
            last.out.value.message =
               "Error: 400: Invalid state transition from 'Completed' to '"
               \o LastNewState.v \o "'. Allowed transitions: []"

\* A command to move a Completed task to In Progress has been answered.
C2_Witness ==
    /\ UpdateOfCompleted
    /\ IsText(LastNewState, IN_PROGRESS)
    /\ ~last.out.value.success

\* Every row of a returned list is a row of the table owned by the caller.
OnlyOwn(rows) ==
    \A i \in 1..Len(rows) :
       /\ rows[i].id \in DOMAIN pre
       /\ rows[i].row = pre[rows[i].id]
       /\ rows[i].row.user_id = last.user

\* The last operation named the id of a row another user owns.
OthersId ==
    /\ last.op \in {"get_task", "update_task", "delete_task"}
    /\ last.id \in DOMAIN pre
    /\ pre[last.id].user_id # last.user

\* C3: get_task, get_tasks and search_tasks_by_title return only rows owned by
\* the caller; get_task, update_task and delete_task with the id of another
\* user's row raise "Task not found" (404) and leave the table as it was; and
\* no operation or command of a user changes or removes another user's row.
C3_OwnershipIsolation ==
    /\ last.op \in {"get_tasks", "search_tasks_by_title"} => OnlyOwn(last.out.value)
    /\ (last.op = "get_task" /\ ~Raised(last.out)) => OnlyOwn(<<last.out.value>>)
    /\ OthersId =>
         /\ Raised(last.out)
         /\ last.out.status = HTTP_404_NOT_FOUND
         /\ last.out.detail = "Task not found"
         /\ tasks = pre
    /\ last.op # "init" =>
         \A id \in DOMAIN pre :
            pre[id].user_id # last.user => id \in DOMAIN tasks /\ tasks[id] = pre[id]

\* A user has asked to update another user's task by its id while owning a
\* task of the same title.
C3_Witness ==
    /\ OthersId
    /\ last.op = "update_task"
    /\ \E id \in DOMAIN pre :
          pre[id].user_id = last.user /\ pre[id].title = pre[last.id].title

\* The last command was an update_state or a delete that named a title.
TitleCommand ==
    /\ LastAction("update_state") \/ LastAction("delete")
    /\ ~IsNone(LastTitle)

\* C4: an update_state or delete command changes the table only when the
\* title search for the caller returns exactly one task.  With no match the
\* result is success=false "No tasks found matching '<title>'"; with several
\* it is success=false with a message listing the titles of all the matches;
\* in both cases the table is as it was.
C4_ExactlyOneMatch ==
    TitleCommand =>
      /\ Len(LastMatches) = 0 =>
           /\ last.out = Failure("No tasks found matching '" \o Get(LastTitle) \o "'")
           /\ tasks = pre
      /\ Len(LastMatches) > 1 =>
           /\ ~Raised(last.out)
           /\ last.out.value.success = FALSE
           /\ last.out.value.message =
                "Multiple tasks found: " \o Join(Titles(LastMatches), ", ")
                \o ". Please be more specific."
           /\ \A i \in 1..Len(LastMatches) :
                 Contains(last.out.value.message, LastMatches[i].row.title)
           /\ tasks = pre
      /\ tasks # pre => Len(LastMatches) = 1

\* A delete command has named a title that is exactly the title of one of
\* two matching tasks.
C4_Witness ==
    /\ LastAction("delete")
    /\ ~IsNone(LastTitle)
    /\ Len(LastMatches) = 2
    /\ \E i \in 1..2 : LastMatches[i].row.title = Get(LastTitle)
    /\ ~last.out.value.success

\* The titles of the caller's tasks before the last operation.
OwnTitles == {pre[id].title : id \in {i \in DOMAIN pre : pre[i].user_id = last.user}}

\* C5: when the caller owns two tasks titled 'Presentation draft' and
\* 'Presentation review', the text 'complete presentation', interpreted by the
\* pattern interpreter, returns success=false with a message listing both
\* titles.
C5_CompletePresentation ==
    (/\ Commanded
     /\ last.llm.kind \in {"absent", "error"}
     /\ last.arg = "complete presentation"
     /\ OwnTitles = {"Presentation draft", "Presentation review"})
    => /\ ~Raised(last.out)
       /\ last.out.value.success = FALSE
       /\ Contains(last.out.value.message, "Presentation draft")
       /\ Contains(last.out.value.message, "Presentation review")

\* The last operation created a task: through the creation endpoint or
\* through a create command that succeeded.
Created ==
    \/ last.op = "create_task"
    \/ LastAction("create") /\ ~Raised(last.out) /\ last.out.value.success

\* Only a title was given: the request sets no other field, or the descriptor
\* holds nothing but its action and the title.
TitleOnly ==
    IF last.op = "create_task"
    THEN last.arg = TaskCreate(last.arg.title)
    ELSE DOMAIN LastParsed.value.v = {"action", "task_title"}

\* The optional fields of a row that a title-only creation leaves null.
Unset(row) ==
    /\ IsNone(row.description) /\ IsNone(row.category)
    /\ IsNone(row.scheduled_date) /\ IsNone(row.scheduled_time)
    /\ IsNone(row.due_date) /\ IsNone(row.due_time)
    /\ IsNone(row.reminder_time)

\* C6: a creation through TaskService.create_task or through a create command
\* adds one row, in state Not Started whatever the request or descriptor
\* holds, owned by the caller; when only a title was given, its description,
\* category, scheduled date and time, due date and time and reminder_time are
\* null.  The rows already there stay as they were.
C6_CreatedNotStarted ==
    Created =>
      \E id \in DOMAIN tasks \ DOMAIN pre :
         /\ DOMAIN tasks = DOMAIN pre \cup {id}
         /\ \A i \in DOMAIN pre : tasks[i] = pre[i]
         /\ tasks[id].state = NOT_STARTED
         /\ tasks[id].user_id = last.user
         /\ TitleOnly => Unset(tasks[id])

\* A create command whose descriptor asks for the state Completed has created
\* a task.
C6_Witness ==
    /\ Created
    /\ LastAction("create")
    /\ IsText(DictGet(LastParsed.value.v, "state", JNull), COMPLETED)
    /\ \E id \in DOMAIN tasks \ DOMAIN pre : ~IsNone(tasks[id].due_date)

\* C7: whatever the text, the user, the outcome of the generative service
\* (absent, a reply, an error) and the outcome of the store (a raised "not
\* found" or invalid transition included), process_command returns a response whose success
\* is a boolean and whose message is a text; nothing it calls raises through
\* it.
C7_AlwaysResponds ==
    Commanded =>
      /\ ~Raised(last.out)
      /\ last.out.value.success \in BOOLEAN
      /\ Len(last.out.value.message) > 0
      /\ DOMAIN last.out.value = {"success", "message", "action", "task_id", "tasks"}

\* The service replied with a JSON value that is no object, so that the
\* dispatcher raised before its own try block, and the command was answered.
C7_Witness ==
    /\ Commanded
    /\ ~Raised(LastParsed)
    /\ LastParsed.value.k = "array"
    /\ ~last.out.value.success

\* The generative service is configured and its call gave no JSON document:
\* it raised, or its text is not well-formed JSON.
LlmFailed(llm) ==
    \/ llm.kind = "error"
    \/ llm.kind = "no_text"
    \/ llm.kind = "text" /\ ~ExtractJson(llm).wf

\* What the dispatcher makes, on the table before the last command, of the
\* pattern interpreter's descriptor of the command's text after normalization.
PatternOutcome ==
    execute_action(pre,
                   normalize_parsed_command(JObject(parse_with_patterns(last.arg, today)),
                                            today).value,
                   last.user)

\* C8: when the generative service is configured and its call raises or its
\* text is not well-formed JSON, the response and the table are the ones the
\* dispatcher makes of the pattern interpreter's normalized descriptor, and
\* the response does not report the service's failure.
C8_FallsBackToPatterns ==
    (Commanded /\ LlmFailed(last.llm)) =>
       /\ last.out = PatternOutcome.out
       /\ tasks = PatternOutcome.db
       /\ ~Raised(last.out)
       /\ ~Contains(last.out.value.message, "couldn't process that command")

\* The service's call raised for a command that the pattern interpreter reads
\* as the start of a task, and the task was started.
C8_Witness ==
    /\ Commanded
    /\ last.llm.kind = "error"
    /\ last.arg = "begin draft"
    /\ last.out.value.success
    /\ tasks # pre

\* process_command on the table before the last command, for the same text
\* and user, under another outcome of the generative service.
Replayed(llm) == process_command(pre, last.arg, last.user, llm, today)

\* C9: for every command text and every table, process_command with no
\* generative service configured (the pattern descriptor dispatched as it is)
\* and process_command with a service whose call fails (the pattern
\* descriptor normalized and then dispatched) return the same response and
\* leave the same table.
C9_AbsentEqualsFailed ==
    /\ (Commanded /\ last.llm.kind = "absent") =>
          /\ Replayed(LlmError).out = last.out
          /\ Replayed(LlmError).db = tasks
    /\ (Commanded /\ LlmFailed(last.llm)) =>
          /\ Replayed(LlmAbsent).out = last.out
          /\ Replayed(LlmAbsent).db = tasks

\* The service's call failed for a text whose pattern descriptor carries a due
\* date and a due time, and the task was created.
C9_Witness ==
    /\ Commanded
    /\ last.llm.kind = "error"
    /\ HasKey(LastParsed.value.v, "due_date")
    /\ HasKey(LastParsed.value.v, "due_time")
    /\ last.out.value.success
    /\ tasks # pre

\* A JSON value that is the text YYYY-MM-DD of a calendar date.
IsCalendarDate(x) == x.k = "str" /\ ~IsNone(ParseISODate(x.v))

\* A JSON value that is the text H:MM or HH:MM of a time of day, 00:00 to
\* 23:59.
IsTimeOfDay(x) ==
    /\ x.k = "str"
    /\ LooksLikeTime(x.v)
    /\ ToNat(SubSeq(x.v, 1, Len(x.v) - 3)) <= 23
    /\ ToNat(SubSeq(x.v, Len(x.v) - 1, Len(x.v))) <= 59

\* C10: for every descriptor the normalizer does not raise, and in what it
\* returns each of scheduled_date, due_date and date_filter is absent or a
\* valid YYYY-MM-DD calendar date, and each of scheduled_time and due_time is
\* absent or a valid 24-hour H:MM or HH:MM time of day.
C10_NormalizedFieldsValid ==
    last.op = "normalize_parsed_command" =>
      /\ ~Raised(last.out)
      /\ \A key \in {"scheduled_date", "due_date", "date_filter"} :
            HasKey(last.out.value.v, key) => IsCalendarDate(last.out.value.v[key])
      /\ \A key \in {"scheduled_time", "due_time"} :
            HasKey(last.out.value.v, key) => IsTimeOfDay(last.out.value.v[key])

\* C11: for a fixed current date the normalizer is idempotent: normalizing
\* what it returned for a descriptor returns the same descriptor again.
C11_NormalizeIdempotent ==
    (last.op = "normalize_parsed_command" /\ ~Raised(last.out)) =>
       normalize_parsed_command(last.out.value, today) = last.out

\* A descriptor with a lower-case priority, a bracketed relative date and a
\* named time of day has been normalized, and all three fields were rewritten.
C11_Witness ==
    /\ last.op = "normalize_parsed_command"
    /\ IsText(DictGet(last.arg.v, "priority", JNull), "high")
    /\ IsText(DictGet(last.arg.v, "due_date", JNull), "[Tomorrow]")
    /\ IsText(DictGet(last.arg.v, "due_time", JNull), "Morning")
    /\ IsText(DictGet(last.out.value.v, "priority", JNull), "HIGH")
    /\ IsText(DictGet(last.out.value.v, "due_date", JNull), DateStr(AddDays(today, 1)))
    /\ IsText(DictGet(last.out.value.v, "due_time", JNull), "09:00")
    /\ today = <<2027, 12, 31>>

\* The last operation was the pattern interpreter.
Interpreted == last.op = "parse_with_patterns"

\* The text the rules read: lower-cased and stripped.
LastLower == Strip(Lower(last.arg))

\* The number, in the order of the rules, of the first rule whose condition
\* holds for a text: 1 greeting, 2 help, 3 scheduling, 4 listing, 5 no task
\* keyword, 6 create, 7 start, 8 complete, 9 delete, 10 unclear.
FirstRule(command_lower) ==
    IF command_lower \in greetings THEN 1
    ELSE IF AnyIn(help_words, command_lower) THEN 2
    ELSE IF AnyIn(schedule_words, command_lower) THEN 3
    ELSE IF AnyIn(list_words, command_lower) THEN 4
    ELSE IF ~AnyIn(task_keywords, command_lower) THEN 5
    ELSE IF /\ AnyIn(<<"add", "create", "new", "make">>, command_lower)
            /\ Len(FirstMatch(create_patterns, command_lower)) > 0 THEN 6
    ELSE IF /\ AnyIn(<<"start", "begin", "working">>, command_lower)
            /\ Len(Search(start_re, command_lower)) > 0 THEN 7
    ELSE IF /\ AnyIn(<<"complete", "finish", "done">>, command_lower)
            /\ Len(Search(complete_re, command_lower)) > 0 THEN 8
    ELSE IF Len(FirstMatch(delete_patterns, command_lower)) > 0 THEN 9
    ELSE 10

\* The descriptor d is one that the rule of the given number returns.
FromRule(d, rule) ==
    CASE rule = 1 -> d = Chat("greeting", "0.9")
      [] rule = 2 -> d = Chat("help", "0.9")
      [] rule = 3 -> /\ IsText(d.action, "create") /\ d.confidence = JFloat("0.8")
                     /\ HasKey(d, "priority")
      [] rule = 4 -> /\ IsText(d.action, "list") /\ d.confidence = JFloat("0.8")
                     /\ DOMAIN d \subseteq {"action", "confidence", "date_filter", "state_filter"}
      [] rule = 5 -> d = Chat("general", "0.8")
      [] rule = 6 -> /\ IsText(d.action, "create") /\ d.confidence = JFloat("0.8")
                     /\ DOMAIN d = {"action", "task_title", "confidence"}
      [] rule = 7 -> /\ IsText(d.action, "update_state") /\ IsText(d.new_state, IN_PROGRESS)
                     /\ d.confidence = JFloat("0.9")
      [] rule = 8 -> /\ IsText(d.action, "update_state") /\ IsText(d.new_state, COMPLETED)
                     /\ d.confidence = JFloat("0.9")
      [] rule = 9 -> /\ IsText(d.action, "delete") /\ d.confidence = JFloat("0.8")
      [] rule = 10 -> d = Chat("unclear", "0.5")

\* A keyword of the listing, start, complete or delete rules is in the text.
HasLaterKeyword(command_lower) ==
    \/ AnyIn(list_words, command_lower)
    \/ AnyIn(<<"start", "begin", "working", "complete", "finish", "done", "delete", "remove">>,
             command_lower)

DescriptorActions == {"create", "update_state", "delete", "list", "chat"}

\* The last text's descriptor is one with a known action.
KnownAction == last.out.action.k = "str" /\ last.out.action.v \in DescriptorActions

\* C13 as stated: the pattern interpreter returns for every text a descriptor
\* with a known action, and every call with the same text, whatever the day
\* of the call, returns the same descriptor.
C13_SameTextSameDescriptor ==
    Interpreted =>
      /\ KnownAction
      /\ \A now \in Dates : PatternRules(last.arg, now) = last.out

\* C13 amended: the pattern interpreter returns for every text a descriptor
\* with a known action; calls with the same text on different days return
\* descriptors with the same keys that differ at most in due_date and
\* date_filter, which hold the day of the call or the day after; and a text
\* that no rule matches yields the chat descriptor "unclear" of confidence 0.5.
C13_TotalAndDateDetermined ==
    Interpreted =>
      /\ KnownAction
      /\ \A now \in Dates :
            \E other \in {PatternRules(last.arg, now)} :
               /\ DOMAIN other = DOMAIN last.out
               /\ \A key \in DOMAIN other \ {"due_date", "date_filter"} :
                     other[key] = last.out[key]
               /\ \A key \in DOMAIN other \cap {"due_date", "date_filter"} :
                     other[key] \in {JStr(DateStr(now)), JStr(DateStr(AddDays(now, 1)))}
      /\ FirstRule(LastLower) = 10 => last.out = Chat("unclear", "0.5")

\* A text that names today has been interpreted on the last day of a year:
\* its due date is that day, and another day gives another descriptor.
C13_Witness ==
    /\ Interpreted
    /\ last.arg = "Remind me to call John today"
    /\ today = <<2027, 12, 31>>
    /\ IsText(last.out.due_date, "2027-12-31")
    /\ \E now \in Dates : PatternRules(last.arg, now) # last.out

\* A number below 100 in two digits.
TwoDigits(n) == IF n < 10 THEN "0" \o NatStr(n) ELSE NatStr(n)

\* The 24-hour hour of a 12-hour hour: pm adds 12 unless the hour is 12, am
\* turns 12 into 0, otherwise the hour is kept.
Clock24(h, ampm) ==
    IF ampm = "pm" THEN (IF h = 12 THEN 12 ELSE h + 12)
    ELSE (IF h = 12 THEN 0 ELSE h)

\* C14: for a text of the scheduling rule that holds a time H:MM am|pm or
\* H am|pm, with H in 1..12 and MM in 00..59, the descriptor is a create whose
\* due_time is the zero-padded 24-hour time: 3pm gives 15:00, 12am gives
\* 00:00 and 12pm gives 12:00.
C14_TwelveHourTimes ==
    Interpreted =>
      \A h \in ClockHours, mm \in ClockMinutes, sep \in {"", " "}, ampm \in {"am", "PM"} :
         last.arg = TimeText(h, mm, sep, ampm) =>
           /\ IsText(last.out.action, "create")
           /\ HasKey(last.out, "due_time")
           /\ last.out.due_time =
                JStr(TwoDigits(Clock24(h, Lower(ampm))) \o ":"
                     \o (IF mm < 0 THEN "00" ELSE TwoDigits(mm)))
           /\ last.arg = "Schedule meeting tomorrow at 3PM" =>
                 last.out.due_time = JStr("15:00")
           /\ last.arg = "Schedule meeting tomorrow at 12am" =>
                 last.out.due_time = JStr("00:00")
           /\ last.arg = "Schedule meeting tomorrow at 12PM" =>
                 last.out.due_time = JStr("12:00")

\* Half past noon, written 12:30 PM, has been read as 12:30.
C14_Witness ==
    /\ Interpreted
    /\ last.arg = TimeText(12, 30, " ", "PM")
    /\ IsText(last.out.due_time, "12:30")

\* The ISO texts of the days the clock may show and of the days after them.
IsoToday ==
    CASE today = <<2026, 2, 28>> -> "2026-02-28"
      [] today = <<2027, 12, 31>> -> "2027-12-31"

IsoTomorrow ==
    CASE today = <<2026, 2, 28>> -> "2026-03-01"
      [] today = <<2027, 12, 31>> -> "2028-01-01"

\* The last text was handled by the scheduling rule.
Scheduled == Interpreted /\ FirstRule(LastLower) = 3

\* C15: for every text the scheduling rule handles, the create descriptor's
\* due_date is today's ISO date when the text holds "today", tomorrow's when
\* it holds "tomorrow" and not "today", and absent otherwise; reminder_time is
\* 15 when the text holds "remind" and absent otherwise.
C15_ScheduledDateAndReminder ==
    Scheduled =>
      /\ IsText(last.out.action, "create")
      /\ IF Contains(LastLower, "today")
         THEN HasKey(last.out, "due_date") /\ last.out.due_date = JStr(IsoToday)
         ELSE IF Contains(LastLower, "tomorrow")
         THEN HasKey(last.out, "due_date") /\ last.out.due_date = JStr(IsoTomorrow)
         ELSE ~HasKey(last.out, "due_date")
      /\ IF Contains(LastLower, "remind")
         THEN HasKey(last.out, "reminder_time") /\ last.out.reminder_time = JInt(15)
         ELSE ~HasKey(last.out, "reminder_time")

\* "Remind me to call John today" has been read on the last day of February:
\* the task is due that day with a reminder of 15 minutes.
C15_Witness ==
    /\ Scheduled
    /\ last.arg = "Remind me to call John today"
    /\ today = <<2026, 2, 28>>
    /\ last.out.due_date = JStr("2026-02-28")
    /\ last.out.reminder_time = JInt(15)
    /\ last.out.task_title = JStr("call john")

\* The last command's descriptor is a create whose task_title is missing,
\* null, empty or only whitespace.
CreateWithoutTitle ==
    /\ LastAction("create")
    /\ \E t \in {DictGet(LastParsed.value.v, "task_title", JStr(""))} :
          t.k = "null" \/ (t.k = "str" /\ Strip(t.v) = "")

\* C16: a create descriptor whose task_title is missing, null, empty or only
\* whitespace returns success=false with the message that asks for a task
\* title, and the table is as it was.
C16_CreateNeedsTitle ==
    CreateWithoutTitle =>
      /\ ~Raised(last.out)
      /\ last.out.value.success = FALSE
      /\ last.out.value.message = "Please provide a task title."
      /\ tasks = pre

\* The last command was a create that succeeded.
CreateSucceeded == LastAction("create") /\ ~Raised(last.out) /\ last.out.value.success

\* The row the last create command added.
CreatedRow == tasks[Get(last.out.value.task_id)]

\* C17: after a successful create command the confirmation holds a priority
\* line if and only if the created task's priority is not MEDIUM: a task
\* created with no priority or with MEDIUM gets no priority line.
C17_PriorityLine ==
    CreateSucceeded =>
      (Contains(last.out.value.message, "Priority:") <=> CreatedRow.priority # "MEDIUM")

\* The message kind of the last chat descriptor: its message when that is one
\* of the four kinds, "unclear" for a missing or unknown one.
ChatKinds == {"greeting", "help", "general", "unclear"}

LastKind ==
    LET m == DictGet(LastParsed.value.v, "message", JNull) IN
    IF m.k = "str" /\ m.v \in ChatKinds THEN m.v ELSE "unclear"

\* The text the chat branch answers a message kind with.
CannedText(kind) ==
    execute_chat(pre, [action |-> JStr("chat"), message |-> JStr(kind)]).out.value.message

\* The last chat command succeeded, changed no task and returned no task.
ChatAnswered ==
    /\ ~Raised(last.out)
    /\ last.out.value.success = TRUE
    /\ IsNone(last.out.value.task_id) /\ IsNone(last.out.value.tasks)
    /\ tasks = pre

\* C18 as stated: a chat descriptor always succeeds without touching the
\* store, and its message is one of four canned texts: greeting, help, general
\* and unclear or default each select a text of their own.
C18_FourCannedTexts ==
    LastAction("chat") =>
      /\ ChatAnswered
      /\ last.out.value.message = CannedText(LastKind)
      /\ \A kind \in ChatKinds \ {LastKind} : CannedText(kind) # last.out.value.message

\* C18 amended: a chat descriptor always succeeds without touching the store,
\* and its message is one of three canned texts: greeting and help each
\* select a text of their own, and every other message value (general,
\* unclear, unknown, null or missing) selects the same third text.
C18_ThreeCannedTexts ==
    LastAction("chat") =>
      /\ ChatAnswered
      /\ last.out.value.message =
           (IF LastKind = "greeting" THEN GREETING_TEXT
            ELSE IF LastKind = "help" THEN HELP_TEXT
            ELSE GENERAL_TEXT)
      /\ Cardinality({GREETING_TEXT, HELP_TEXT, GENERAL_TEXT}) = 3

\* A chat descriptor with no message has been answered with the text of the
\* general kind.
C18_Witness ==
    /\ LastAction("chat")
    /\ ~HasKey(LastParsed.value.v, "message")
    /\ last.out.value.success
    /\ last.out.value.message = CannedText("general")
    /\ last.out.value.message = CannedText("unclear")

\* The state_filter of the last command's descriptor; none is given when it
\* is missing, null or empty.
LastFilter == DictGet(LastParsed.value.v, "state_filter", JNull)

FilterGiven == LastFilter.k # "null" /\ LastFilter # JStr("")

\* The ids of the caller's rows, before the last command, that the filter
\* lets through.
Listed ==
    {id \in DOMAIN pre :
       /\ pre[id].user_id = last.user
       /\ FilterGiven => pre[id].state = LastFilter.v}

\* C19: a list descriptor leaves the table as it was.  With a state_filter
\* that is none of the three state labels it returns success=false "Invalid
\* state filter" and no list; otherwise it returns success=true with exactly
\* the caller's tasks in the filtered state, all of the caller's tasks when
\* no filter is given; the count in the message is the number of tasks
\* returned, and an empty result is a success with an empty list.
C19_ListCommand ==
    LastAction("list") =>
      /\ tasks = pre
      /\ ~Raised(last.out)
      /\ IF FilterGiven /\ ~(LastFilter.k = "str" /\ LastFilter.v \in TaskState)
         THEN /\ last.out.value.success = FALSE
              /\ StartsWithAt(last.out.value.message, "Invalid state filter", 1)
              /\ IsNone(last.out.value.tasks)
         ELSE /\ last.out.value.success = TRUE
              /\ ~IsNone(last.out.value.tasks)
              /\ \E rows \in {Get(last.out.value.tasks)} :
                    /\ {rows[i].id : i \in 1..Len(rows)} = Listed
                    /\ Len(rows) = Cardinality(Listed)
                    /\ \A i \in 1..Len(rows) : rows[i].row = pre[rows[i].id]
                    /\ IF Len(rows) = 0
                       THEN StartsWithAt(last.out.value.message, "No tasks found", 1)
                       ELSE StartsWithAt(last.out.value.message,
                                         "Found " \o NatStr(Len(rows)) \o " task(s)", 1)

\* The caller owns two tasks and another user owns a third; a listing of the
\* tasks In Progress has returned the one task of the caller in that state.
C19_Witness ==
    /\ LastAction("list")
    /\ IsText(LastFilter, IN_PROGRESS)
    /\ Cardinality({id \in DOMAIN pre : pre[id].user_id = last.user}) = 2
    /\ \E id \in DOMAIN pre : pre[id].user_id # last.user
    /\ last.out.value.success
    /\ Len(Get(last.out.value.tasks)) = 1
    /\ last.out.value.message = "Found 1 task(s) in state 'In Progress'"

\* The last command was a delete whose title matched exactly one task of the
\* caller.
DeleteOfOne == LastAction("delete") /\ Len(LastMatches) = 1

\* C20: a delete descriptor whose title matches exactly one of the caller's
\* tasks removes that task and no other, and returns success=true with the
\* action "delete", the task's id and a message that holds its title; every
\* other task, of the caller and of every other user, is as it was.
C20_DeleteOne ==
    DeleteOfOne =>
      /\ ~Raised(last.out)
      /\ last.out.value.success = TRUE
      /\ last.out.value.action = Some("delete")
      /\ last.out.value.task_id = Some(LastMatches[1].id)
      /\ Contains(last.out.value.message, pre[LastMatches[1].id].title)
      /\ DOMAIN tasks = DOMAIN pre \ {LastMatches[1].id}
      /\ \A id \in DOMAIN tasks : tasks[id] = pre[id]

\* The caller's one matching task has been deleted while another user's task
\* with a matching title stayed.
C20_Witness ==
    /\ DeleteOfOne
    /\ last.out.value.success
    /\ LastMatches[1].id \notin DOMAIN tasks
    /\ \E id \in DOMAIN tasks :
          /\ tasks[id].user_id # last.user
          /\ LikeMatch("%" \o Get(LastTitle) \o "%", tasks[id].title)

(***************************************************************************)
(* C21: descriptors with no recognised action.                             *)
(***************************************************************************)
\* The last command's descriptor is an object whose action is missing or is
\* none of the five the dispatcher has a branch for.
UnrecognisedAction ==
    /\ Commanded
    /\ ~Raised(LastParsed)
    /\ LastParsed.value.k = "object"
    /\ \A a \in DescriptorActions :
          ~IsText(DictGet(LastParsed.value.v, "action", JNull), a)

\* C21: a descriptor whose action is missing or is not one of the recognised
\* actions is answered with success=false and the "couldn't understand" text
\* that names the canonical commands; no task or task list is returned and the
\* table is as it was.
C21_UnknownAction ==
    UnrecognisedAction =>
      /\ ~Raised(last.out)
      /\ last.out.value.success = FALSE
      /\ last.out.value.message = UNDERSTOOD_TEXT
      /\ Contains(UNDERSTOOD_TEXT, "I couldn't understand")
      /\ \A c \in {"'create task'", "'start task'", "'complete task'", "'show tasks'"} :
            Contains(UNDERSTOOD_TEXT, c)
      /\ IsNone(last.out.value.task_id) /\ IsNone(last.out.value.tasks)
      /\ tasks = pre

\* A descriptor that has a title and no action has been answered with the
\* text, with a task of that title in the table.
C21_Witness ==
    /\ UnrecognisedAction
    /\ ~HasKey(LastParsed.value.v, "action")
    /\ LastTitle = Some("draft")
    /\ Len(LastMatches) = 1
    /\ last.out.value.message = UNDERSTOOD_TEXT

(***************************************************************************)
(* C22: the update_task action of the descriptor schema.                   *)
(***************************************************************************)
\* A replacement text of the last command's descriptor, when it is given.
LastNew(key) ==
    LET t == DictGet(LastParsed.value.v, key, JNull) IN
    IF t.k = "str" THEN Some(t.v) ELSE None

\* The last command was an update_task whose title matched exactly one task
\* of the caller and that carries a new title or a new description.
UpdateTaskOfOne ==
    /\ LastAction("update_task")
    /\ Len(LastMatches) = 1
    /\ ~IsNone(LastNew("new_title")) \/ ~IsNone(LastNew("new_description"))

\* C22: an update_task descriptor whose title matches exactly one of the
\* caller's tasks and that carries new_title or new_description returns
\* success=true, and the task then has the given title or description.
C22_UpdateTask ==
    UpdateTaskOfOne =>
      /\ ~Raised(last.out)
      /\ last.out.value.success = TRUE
      /\ LastMatches[1].id \in DOMAIN tasks
      /\ ~IsNone(LastNew("new_title")) =>
            tasks[LastMatches[1].id].title = Get(LastNew("new_title"))
      /\ ~IsNone(LastNew("new_description")) =>
            tasks[LastMatches[1].id].description = LastNew("new_description")

(***************************************************************************)
(* C23: the task updates the help text and the endpoint's docstring name.  *)
(***************************************************************************)
\* The action, and the new state when there is one, each advertised command
\* is advertised for.
Advertised ==
    [c \in {"Start working on presentation", "Start working on presentation task",
            "Mark presentation as completed", "Complete the research task",
            "Delete old appointment"} |->
       IF c \in {"Start working on presentation", "Start working on presentation task"}
       THEN [action |-> "update_state", new_state |-> Some(IN_PROGRESS)]
       ELSE IF c \in {"Mark presentation as completed", "Complete the research task"}
       THEN [action |-> "update_state", new_state |-> Some(COMPLETED)]
       ELSE [action |-> "delete", new_state |-> None]]

\* C23: the pattern interpreter gives each advertised task update the action
\* it is advertised for, with the advertised new state, and never create.
C23_AdvertisedUpdates ==
    (Interpreted /\ last.arg \in DOMAIN Advertised) =>
      /\ last.out.action = JStr(Advertised[last.arg].action)
      /\ ~IsNone(Advertised[last.arg].new_state) =>
            /\ "new_state" \in DOMAIN last.out
            /\ last.out.new_state = JStr(Get(Advertised[last.arg].new_state))

(***************************************************************************)
(* C27: replies that are well-formed JSON and no JSON object.              *)
(***************************************************************************)
\* The generative service replied to the last command with well-formed JSON
\* whose value is an array, a string, a number or null.
RepliedNonObject ==
    /\ Commanded
    /\ last.llm.kind = "text"
    /\ ExtractJson(last.llm).wf
    /\ json_loads(ExtractJson(last.llm)).value.k # "object"

\* C27: when the reply is well-formed JSON that is not an object, the command
\* is dispatched with the pattern interpreter's descriptor: the response and
\* the table are the ones that descriptor produces.
C27_NonObjectFallsBack ==
    RepliedNonObject =>
      /\ last.out = PatternOutcome.out
      /\ tasks = PatternOutcome.db

(***************************************************************************)
(* C28: the filters of a list command that the dispatcher reads.           *)
(***************************************************************************)
\* The values a date_filter or a category_filter is given in the variants of
\* a list descriptor; null stands for a descriptor without the key.
FilterVariants == {JNull, JStr(IsoToday), JStr(IsoTomorrow), JStr("Work")}

\* d with the key set to the value, and without the key for null.
WithFilter(d, key, value) ==
    IF value = JNull THEN DictPop(d, key) ELSE DictSet(d, key, value)

\* What the dispatcher makes, on the table before the last command, of the
\* last command's descriptor with the given date_filter and category_filter.
ListedWith(date_filter, category_filter) ==
    execute_action(pre,
                   JObject(WithFilter(WithFilter(LastParsed.value.v,
                                                 "date_filter", date_filter),
                                      "category_filter", category_filter)),
                   last.user)

Rank(state) ==
    CASE state = NOT_STARTED -> 0
      [] state = IN_PROGRESS -> 1
      [] state = COMPLETED -> 2

\* The last step was the commit of an update_task whose row was in the table.
Committed ==
    /\ last.op = "update_task_commit"
    /\ ~Raised(last.out)
    /\ last.id \in DOMAIN pre

\* C24: whatever the order of the steps of the update_task calls in
\* progress, the commit of a call never moves the stored state of its task
\* backwards: not from Completed to In Progress or Not Started, and not from
\* In Progress to Not Started.
C24_StateNeverMovesBack ==
    Committed => Rank(tasks[last.id].state) >= Rank(pre[last.id].state)

(***************************************************************************)
(* C25: a command whose task is deleted between its search and its call of *)
(* the store.                                                              *)
(***************************************************************************)
\* The last step was the store call of a delete or update_state command
\* whose task, found by title, was no longer in the table: a request of the
\* same user had deleted it after the search.
GoneBeforeStore ==
    /\ last.op = "execute_store"
    /\ IsNone(get_task(pre, last.task.id, last.user))
    /\ \/ Verb(last.arg) = "delete"
       \/ ~IsNone(TaskStateOf(DictGet(last.arg.v, "new_state", JNull)))

NonStateFields ==
    {"title", "description", "priority", "category", "scheduled_date",
     "scheduled_time", "due_date", "due_time", "reminder_time"}

\* The last step was an update_task that raised the invalid-transition error.
Rejected ==
    /\ last.op = "update_task_load"
    /\ Raised(last.out)
    /\ last.out.status = HTTP_400_BAD_REQUEST

\* The last step was an operation on the session of a rejected update_task
\* whose row is still in the table.
AfterRejected ==
    /\ last.op \in {"create_task", "close"}
    /\ "rejected" \in DOMAIN last
    /\ last.rejected.id \in DOMAIN pre \cap DOMAIN tasks

\* The stored row has, in a field the rejected request gave, the request's
\* value, and did not have it before the last step.
TookRejectedValue(f) ==
    /\ ~IsNone(last.rejected.arg[f])
    /\ pre[last.rejected.id][f] # last.rejected.obj[f]
    /\ tasks[last.rejected.id][f] = last.rejected.obj[f]

\* C26: an update_task whose state is an invalid transition is rejected with
\* the table left as it was, and no later operation on the same session
\* gives a non-state field of the task the value of the rejected request.
C26_AllOrNothing ==
    /\ Rejected => tasks = pre
    /\ AfterRejected => \A f \in NonStateFields : ~TookRejectedValue(f)

====
